---- MODULE Spec2Model ----
(***************************************************************************)
(* State-machine model of the Tonk table server: the rules engine          *)
(* (gameEngine), the wallet settlement it calls, and the socket handlers   *)
(* that load a table's game state, apply one engine function and save.     *)
(*                                                                         *)
(* Indices are kept as in the source: currentPlayerIndex is 0-based (and   *)
(* -1 after an automatic win), so players[currentPlayerIndex] of the code  *)
(* is players[currentPlayerIndex + 1] here.                                *)
(***************************************************************************)
EXTENDS Integers, Sequences, FiniteSets, TLC

(***************************************************************************)
(* Bounds of the model.                                                    *)
(***************************************************************************)
\* Number of client events handled in one behaviour.
MaxEvents == 5
\* Number of different outcomes of shuffleDeck that Init chooses from.
NumShuffles == 1
\* Clients name only cards of the NumClientRanks highest ranks in their
\* discardCard / spread / hit payloads.
NumClientRanks == 2

\* Events counted before another handler may load the state, in the
\* specification of the handlers that run at once.
MaxLoads == 3

(***************************************************************************)
(* Program constants.                                                      *)
(***************************************************************************)
CardsPerPlayer == 5
TableStake == 10
MinPlayers == 2
MaxPlayers == 4
JoinBalanceFactor == 4
LockTTL == 10

(***************************************************************************)
(* deck.ts: cards, deck, deal.                                             *)
(***************************************************************************)
SUITS == <<"Hearts", "Diamonds", "Clubs", "Spades">>

RANKS_AND_VALUES ==
  << [rank |-> "Ace",   value |-> 1],  [rank |-> "2",     value |-> 2],
     [rank |-> "3",     value |-> 3],  [rank |-> "4",     value |-> 4],
     [rank |-> "5",     value |-> 5],  [rank |-> "6",     value |-> 6],
     [rank |-> "7",     value |-> 7],  [rank |-> "Jack",  value |-> 10],
     [rank |-> "Queen", value |-> 10], [rank |-> "King",  value |-> 10] >>

\* createDeck: for each suit, for each rank, push {suit, rank, value}.
createDeck ==
  [i \in 1..(Len(SUITS) * Len(RANKS_AND_VALUES)) |->
     [suit  |-> SUITS[((i - 1) \div Len(RANKS_AND_VALUES)) + 1],
      rank  |-> RANKS_AND_VALUES[((i - 1) % Len(RANKS_AND_VALUES)) + 1].rank,
      value |-> RANKS_AND_VALUES[((i - 1) % Len(RANKS_AND_VALUES)) + 1].value]]

\* getCardNumericalRank: ranks.indexOf(rank), 0-based.
getCardNumericalRank(rank) ==
  (CHOOSE i \in 1..Len(RANKS_AND_VALUES) : RANKS_AND_VALUES[i].rank = rank) - 1

\* The `${rank}-${suit}` key the engine uses to identify a card.
CardKey(card) == card.rank \o "-" \o card.suit

SameCard(a, b) == a.rank = b.rank /\ a.suit = b.suit

\* The outcomes of the Fisher-Yates shuffle are the permutations of the
\* deck; an outcome is given as the positions of createDeck in their new
\* order.  ShuffleBase is one permutation of 1..40 and ShuffleOrder(seed) is
\* that permutation rotated left by seed - 1 places.
ShuffleBase ==
  << 40, 10,  9, 20, 19, 30, 12, 29,  3,  2,
     39,  4,  1,  6, 11, 16, 21, 26, 31, 36,
      7, 17, 22, 27, 32, 37, 13, 23, 33, 14,
     24, 34,  5, 15, 25, 35,  8, 18, 28, 38 >>

ShuffleOrder(seed) ==
  [i \in 1..Len(ShuffleBase) |->
     ShuffleBase[((i - 1 + seed - 1) % Len(ShuffleBase)) + 1]]

\* shuffleDeck: the deck in the order the shuffle produced.
shuffleDeck(deck, order) == [i \in 1..Len(deck) |-> deck[order[i]]]

\* dealCards: round-robin, one card per seat, cardsPerPlayer times.
dealCards(shuffledDeck, numberOfPlayers, cardsPerPlayer) ==
  [ok |-> /\ numberOfPlayers >= 2
          /\ numberOfPlayers <= 4
          /\ Len(shuffledDeck) >= numberOfPlayers * cardsPerPlayer,
   remainingDeck |->
     SubSeq(shuffledDeck, numberOfPlayers * cardsPerPlayer + 1, Len(shuffledDeck)),
   playerHands |->
     [j \in 1..numberOfPlayers |->
        [i \in 1..cardsPerPlayer |-> shuffledDeck[(i - 1) * numberOfPlayers + j]]]]

(***************************************************************************)
(* Sequence helpers standing for the array methods the engine uses.        *)
(***************************************************************************)
RemoveAt(seq, i) == SubSeq(seq, 1, i - 1) \o SubSeq(seq, i + 1, Len(seq))

\* findIndex by (rank, suit); 0 when absent (the code's -1).
CardIndex(hand, card) ==
  LET S == {i \in 1..Len(hand) : SameCard(hand[i], card)}
  IN IF S = {} THEN 0 ELSE CHOOSE i \in S : \A j \in S : i <= j

\* players.findIndex(p => p.userId === userId), 0-based, -1 when absent.
PlayerIndex(players, userId) ==
  LET S == {i \in 1..Len(players) : players[i].userId = userId}
  IN IF S = {} THEN -1 ELSE (CHOOSE i \in S : \A j \in S : i <= j) - 1

RECURSIVE SumValues(_)
SumValues(cards) ==
  IF cards = <<>> THEN 0 ELSE Head(cards).value + SumValues(Tail(cards))

\* calculateHandValue: hand.reduce((sum, card) => sum + card.value, 0).
calculateHandValue(hand) == SumValues(hand)

\* calculateAllHandScores: userId -> hand value.
calculateAllHandScores(players) ==
  [u \in {players[i].userId : i \in 1..Len(players)} |->
     calculateHandValue(players[PlayerIndex(players, u) + 1].hand)]

\* Array.prototype.sort by numerical rank (stable insertion).
RECURSIVE InsertByRank(_, _)
InsertByRank(sorted, card) ==
  IF sorted = <<>> THEN <<card>>
  ELSE IF getCardNumericalRank(Head(sorted).rank) <= getCardNumericalRank(card.rank)
       THEN <<Head(sorted)>> \o InsertByRank(Tail(sorted), card)
       ELSE <<card>> \o sorted

RECURSIVE SortByRank(_)
SortByRank(cards) ==
  IF cards = <<>> THEN <<>>
  ELSE InsertByRank(SortByRank(SubSeq(cards, 1, Len(cards) - 1)), cards[Len(cards)])

(***************************************************************************)
(* gameEngine: the game state (IGameState) and the MongoDB documents the   *)
(* engine reads and writes.  db = [wallets, matches, transactions]:        *)
(*   wallets      userId -> [availableBalance, matchEarningsHistory]       *)
(*   matches      the Match documents saved                                *)
(*   transactions the Transaction documents saved                          *)
(* An engine function returns [ok, gs, db, error]: ok = FALSE is a throw   *)
(* (gs and db are then the ones passed in).                                *)
(***************************************************************************)
Ok(gs, db) == [ok |-> TRUE, gs |-> gs, db |-> db, error |-> ""]
Throw(gs, db, msg) == [ok |-> FALSE, gs |-> gs, db |-> db, error |-> msg]

MapPut(m, k, v) == [x \in (DOMAIN m) \cup {k} |-> IF x = k THEN v ELSE m[x]]

SetPlayer(players, index, p) == [players EXCEPT ![index + 1] = p]

\* The winType values matchSchema accepts.
MatchWinTypes == {"REEM", "REGULAR", "AUTO_TRIPLE", "CAUGHT_DROP"}

\* checkForAutomaticWins: the loop over the players in seat order; autoWin is
\* the value of the loop variable so far ([winnerId |-> "", type |-> "null"]
\* for null).
\* The loop leaving at the first player with 50 or 47 as well.
RECURSIVE AutoWinLoop_RegularBreaks(_, _, _)
AutoWinLoop_RegularBreaks(players, i, autoWin) ==
  IF i > Len(players) THEN autoWin
  ELSE LET handValue == calculateHandValue(players[i].hand)
       IN IF handValue = 41 \/ handValue <= 11
          THEN [winnerId |-> players[i].userId, type |-> "AUTO_TRIPLE"]
          ELSE IF handValue = 50 \/ handValue = 47
               THEN [winnerId |-> players[i].userId, type |-> "REGULAR"]
               ELSE AutoWinLoop_RegularBreaks(players, i + 1, autoWin)

RECURSIVE AutoWinLoop(_, _, _)
AutoWinLoop(players, i, autoWin) ==
  IF i > Len(players) THEN autoWin
  ELSE LET handValue == calculateHandValue(players[i].hand)
       IN IF handValue = 41 \/ handValue <= 11
          THEN [winnerId |-> players[i].userId, type |-> "AUTO_TRIPLE"]
          ELSE IF handValue = 50 \/ handValue = 47
               THEN AutoWinLoop(players, i + 1,
                                [winnerId |-> players[i].userId, type |-> "REGULAR"])
               ELSE AutoWinLoop(players, i + 1, autoWin)

checkForAutomaticWins(players) ==
  AutoWinLoop(players, 1, [winnerId |-> "", type |-> "null"])

\* handleBuyIn: every player's ante is added to the pot and to lockedAntes;
\* each human's wallet is debited.  The wallet updates are separate saves
\* (no transaction): a player who cannot pay makes the call throw, the other
\* players' debits stay.
CanPayAnte(db, player, baseStake) ==
  /\ player.userId \in DOMAIN db.wallets
  /\ db.wallets[player.userId].availableBalance >= baseStake

\* handleBuyIn with the pot raised for the paying (human) players only.
handleBuyIn_HumanPot(gs, db) ==
  LET n == Len(gs.players)
      ids == {gs.players[i].userId : i \in 1..n}
      humans == {i \in 1..n : ~gs.players[i].isAI}
      paying == {gs.players[i].userId :
                   i \in {j \in humans : CanPayAnte(db, gs.players[j], gs.baseStake)}}
      newWallets == [u \in DOMAIN db.wallets |->
                      IF u \in paying
                      THEN [db.wallets[u] EXCEPT
                              !.availableBalance = @ - gs.baseStake]
                      ELSE db.wallets[u]]
      newDb == [db EXCEPT !.wallets = newWallets]
      newGs == [gs EXCEPT
                  !.players = [i \in 1..n |->
                                 [gs.players[i] EXCEPT !.currentBuyIn = gs.baseStake]],
                  !.pot = gs.pot + Cardinality(humans) * gs.baseStake,
                  !.lockedAntes = [u \in (DOMAIN gs.lockedAntes) \cup ids |->
                                     IF u \in ids THEN gs.baseStake
                                     ELSE gs.lockedAntes[u]]]
  IN IF \A i \in humans : CanPayAnte(db, gs.players[i], gs.baseStake)
     THEN Ok(newGs, newDb)
     ELSE Throw(gs, newDb, "insufficient funds for the ante")

handleBuyIn(gs, db) ==
  LET n == Len(gs.players)
      ids == {gs.players[i].userId : i \in 1..n}
      humans == {i \in 1..n : ~gs.players[i].isAI}
      paying == {gs.players[i].userId :
                   i \in {j \in humans : CanPayAnte(db, gs.players[j], gs.baseStake)}}
      newWallets == [u \in DOMAIN db.wallets |->
                      IF u \in paying
                      THEN [db.wallets[u] EXCEPT
                              !.availableBalance = @ - gs.baseStake]
                      ELSE db.wallets[u]]
      newDb == [db EXCEPT !.wallets = newWallets]
      newGs == [gs EXCEPT
                  !.players = [i \in 1..n |->
                                 [gs.players[i] EXCEPT !.currentBuyIn = gs.baseStake]],
                  !.pot = gs.pot + n * gs.baseStake,
                  !.lockedAntes = [u \in (DOMAIN gs.lockedAntes) \cup ids |->
                                     IF u \in ids THEN gs.baseStake
                                     ELSE gs.lockedAntes[u]]]
  IN IF \A i \in humans : CanPayAnte(db, gs.players[i], gs.baseStake)
     THEN Ok(newGs, newDb)
     ELSE Throw(gs, newDb, "insufficient funds for the ante")

\* calculatePayouts.
Losers(gs) ==
  SelectSeq(gs.players, LAMBDA p : p.userId # gs.roundWinnerId)

\* calculatePayouts with the AUTO_TRIPLE bonus counted once, not per loser.
calculatePayouts_TripleOnce(gs) ==
  LET losers == Losers(gs)
      each(amount) == [i \in 1..Len(losers) |->
                         [playerId |-> losers[i].userId, amount |-> amount]]
  IN IF gs.roundWinnerId = ""
     THEN [winnerPayout |-> 0, penalties |-> <<>>]
     ELSE CASE gs.roundEndedBy \in {"REGULAR", "DECK_EMPTY"} ->
                 [winnerPayout |-> gs.pot, penalties |-> <<>>]
            [] gs.roundEndedBy = "REEM" ->
                 [winnerPayout |-> gs.pot + gs.baseStake * Len(losers),
                  penalties |-> each(gs.baseStake)]
            [] gs.roundEndedBy = "AUTO_TRIPLE" ->
                 [winnerPayout |-> gs.pot + gs.baseStake * 3,
                  penalties |-> each(gs.baseStake * 3)]
            [] gs.roundEndedBy = "CAUGHT_DROP" ->
                 IF gs.caughtDroppingPlayerId # ""
                 THEN [winnerPayout |-> gs.pot + gs.baseStake,
                       penalties |-> <<[playerId |-> gs.caughtDroppingPlayerId,
                                        amount |-> gs.baseStake]>>]
                 ELSE [winnerPayout |-> 0, penalties |-> <<>>]
            [] OTHER -> [winnerPayout |-> 0, penalties |-> <<>>]

\* calculatePayouts with the REEM winner paid the pot only.
calculatePayouts_ReemPotOnly(gs) ==
  LET losers == Losers(gs)
      each(amount) == [i \in 1..Len(losers) |->
                         [playerId |-> losers[i].userId, amount |-> amount]]
  IN IF gs.roundWinnerId = ""
     THEN [winnerPayout |-> 0, penalties |-> <<>>]
     ELSE CASE gs.roundEndedBy \in {"REGULAR", "DECK_EMPTY"} ->
                 [winnerPayout |-> gs.pot, penalties |-> <<>>]
            [] gs.roundEndedBy = "REEM" ->
                 [winnerPayout |-> gs.pot,
                  penalties |-> each(gs.baseStake)]
            [] gs.roundEndedBy = "AUTO_TRIPLE" ->
                 [winnerPayout |-> gs.pot + (gs.baseStake * 3) * Len(losers),
                  penalties |-> each(gs.baseStake * 3)]
            [] gs.roundEndedBy = "CAUGHT_DROP" ->
                 IF gs.caughtDroppingPlayerId # ""
                 THEN [winnerPayout |-> gs.pot + gs.baseStake,
                       penalties |-> <<[playerId |-> gs.caughtDroppingPlayerId,
                                        amount |-> gs.baseStake]>>]
                 ELSE [winnerPayout |-> 0, penalties |-> <<>>]
            [] OTHER -> [winnerPayout |-> 0, penalties |-> <<>>]

calculatePayouts(gs) ==
  LET losers == Losers(gs)
      each(amount) == [i \in 1..Len(losers) |->
                         [playerId |-> losers[i].userId, amount |-> amount]]
  IN IF gs.roundWinnerId = ""
     THEN [winnerPayout |-> 0, penalties |-> <<>>]
     ELSE CASE gs.roundEndedBy \in {"REGULAR", "DECK_EMPTY"} ->
                 [winnerPayout |-> gs.pot, penalties |-> <<>>]
            [] gs.roundEndedBy = "REEM" ->
                 [winnerPayout |-> gs.pot + gs.baseStake * Len(losers),
                  penalties |-> each(gs.baseStake)]
            [] gs.roundEndedBy = "AUTO_TRIPLE" ->
                 [winnerPayout |-> gs.pot + (gs.baseStake * 3) * Len(losers),
                  penalties |-> each(gs.baseStake * 3)]
            [] gs.roundEndedBy = "CAUGHT_DROP" ->
                 IF gs.caughtDroppingPlayerId # ""
                 THEN [winnerPayout |-> gs.pot + gs.baseStake,
                       penalties |-> <<[playerId |-> gs.caughtDroppingPlayerId,
                                        amount |-> gs.baseStake]>>]
                 ELSE [winnerPayout |-> 0, penalties |-> <<>>]
            [] OTHER -> [winnerPayout |-> 0, penalties |-> <<>>]

\* The loop writing the history entry and the transaction of a penalty but
\* not the new balance.
RECURSIVE DebitPenalties_HistoryOnly(_, _)
DebitPenalties_HistoryOnly(db, penalties) ==
  IF penalties = <<>> THEN [ok |-> TRUE, db |-> db]
  ELSE LET pen == Head(penalties)
       IN IF pen.playerId \notin DOMAIN db.wallets
          THEN DebitPenalties_HistoryOnly(db, Tail(penalties))
          ELSE IF db.wallets[pen.playerId].availableBalance - pen.amount < 0
               THEN [ok |-> FALSE, db |-> db]
               ELSE DebitPenalties_HistoryOnly(
                      [db EXCEPT
                         !.wallets[pen.playerId] =
                            [availableBalance |-> @.availableBalance,
                             matchEarningsHistory |->
                               Append(@.matchEarningsHistory, 0 - pen.amount)],
                         !.transactions =
                            Append(@, [userId |-> pen.playerId, type |-> "Loss",
                                       amount |-> 0 - pen.amount])],
                      Tail(penalties))

\* settleWallets, the loop over the penalties inside the transaction:
\* [ok, db]; ok = FALSE when a debit leaves a balance below 0.
RECURSIVE DebitPenalties(_, _)
DebitPenalties(db, penalties) ==
  IF penalties = <<>> THEN [ok |-> TRUE, db |-> db]
  ELSE LET pen == Head(penalties)
       IN IF pen.playerId \notin DOMAIN db.wallets
          THEN DebitPenalties(db, Tail(penalties))
          ELSE IF db.wallets[pen.playerId].availableBalance - pen.amount < 0
               THEN [ok |-> FALSE, db |-> db]
               ELSE DebitPenalties(
                      [db EXCEPT
                         !.wallets[pen.playerId] =
                            [availableBalance |-> @.availableBalance - pen.amount,
                             matchEarningsHistory |->
                               Append(@.matchEarningsHistory, 0 - pen.amount)],
                         !.transactions =
                            Append(@, [userId |-> pen.playerId, type |-> "Loss",
                                       amount |-> 0 - pen.amount])],
                      Tail(penalties))

PenaltyOf(penalties, userId) ==
  LET S == {i \in 1..Len(penalties) : penalties[i].playerId = userId}
  IN IF S = {} THEN 0 ELSE penalties[CHOOSE i \in S : \A j \in S : i <= j].amount

\* settleWallets with every save written at once, outside a session.
settleWallets_NoSession(gs, payoutData, db) ==
  LET w == gs.roundWinnerId
      credited ==
        IF w \in DOMAIN db.wallets
        THEN [db EXCEPT
                !.wallets[w] =
                   [availableBalance |-> @.availableBalance + payoutData.winnerPayout,
                    matchEarningsHistory |->
                      Append(@.matchEarningsHistory, payoutData.winnerPayout)],
                !.transactions =
                   Append(@, [userId |-> w, type |-> "Win",
                              amount |-> payoutData.winnerPayout])]
        ELSE db
      debited == DebitPenalties(credited, payoutData.penalties)
      match ==
        [players |->
           [i \in 1..Len(gs.players) |->
              [userId |-> gs.players[i].userId,
               stake  |-> gs.baseStake,
               buyIn  |-> gs.players[i].currentBuyIn,
               payout |-> IF gs.players[i].userId = w
                          THEN payoutData.winnerPayout
                          ELSE 0 - gs.baseStake
                                 - PenaltyOf(payoutData.penalties, gs.players[i].userId),
               isAI   |-> gs.players[i].isAI,
               finalHandValue |->
                 IF gs.players[i].userId \in DOMAIN gs.handScores
                 THEN gs.handScores[gs.players[i].userId] ELSE 0]],
         winner |-> w,
         winType |-> gs.roundEndedBy,
         pot |-> gs.pot,
         winnerPayout |-> payoutData.winnerPayout,
         penalties |-> payoutData.penalties]
  IN IF w = "" THEN [ok |-> FALSE, db |-> db]
     ELSE IF ~debited.ok THEN [ok |-> FALSE, db |-> debited.db]
     ELSE IF match.winType \notin MatchWinTypes THEN [ok |-> FALSE, db |-> debited.db]
     ELSE [ok |-> TRUE,
           db |-> [debited.db EXCEPT !.matches = Append(@, match)]]

\* settleWallets: one MongoDB transaction; [ok, db], db unchanged when it aborts.
settleWallets(gs, payoutData, db) ==
  LET w == gs.roundWinnerId
      credited ==
        IF w \in DOMAIN db.wallets
        THEN [db EXCEPT
                !.wallets[w] =
                   [availableBalance |-> @.availableBalance + payoutData.winnerPayout,
                    matchEarningsHistory |->
                      Append(@.matchEarningsHistory, payoutData.winnerPayout)],
                !.transactions =
                   Append(@, [userId |-> w, type |-> "Win",
                              amount |-> payoutData.winnerPayout])]
        ELSE db
      debited == DebitPenalties(credited, payoutData.penalties)
      match ==
        [players |->
           [i \in 1..Len(gs.players) |->
              [userId |-> gs.players[i].userId,
               stake  |-> gs.baseStake,
               buyIn  |-> gs.players[i].currentBuyIn,
               payout |-> IF gs.players[i].userId = w
                          THEN payoutData.winnerPayout
                          ELSE 0 - gs.baseStake
                                 - PenaltyOf(payoutData.penalties, gs.players[i].userId),
               isAI   |-> gs.players[i].isAI,
               finalHandValue |->
                 IF gs.players[i].userId \in DOMAIN gs.handScores
                 THEN gs.handScores[gs.players[i].userId] ELSE 0]],
         winner |-> w,
         winType |-> gs.roundEndedBy,
         pot |-> gs.pot,
         winnerPayout |-> payoutData.winnerPayout,
         penalties |-> payoutData.penalties]
      \* session.abortTransaction(): none of the writes of the session stays.
      aborted == [ok |-> FALSE, db |-> db]
  IN IF w = "" THEN aborted
     ELSE IF ~debited.ok THEN aborted
     ELSE IF match.winType \notin MatchWinTypes THEN aborted
     ELSE [ok |-> TRUE,
           db |-> [debited.db EXCEPT !.matches = Append(@, match)]]

\* handleRoundEndPayouts: settle, then store the payouts map.  The map is
\* built by three object spreads: the winner's entry, then -baseStake for
\* every other player, then the penalties (an entry of the last spread
\* replaces the earlier one for the same player).
RECURSIVE PenaltyMap(_, _)
PenaltyMap(penalties, acc) ==
  IF penalties = <<>> THEN acc
  ELSE LET p == Head(penalties)
           existing == IF p.playerId \in DOMAIN acc THEN acc[p.playerId] ELSE 0
       IN PenaltyMap(Tail(penalties), MapPut(acc, p.playerId, existing - p.amount))

handleRoundEndPayouts(gs, db) ==
  IF gs.status # "round-end" THEN Ok(gs, db)
  ELSE LET payoutData == calculatePayouts(gs)
           settled == settleWallets(gs, payoutData, db)
           others == {gs.players[i].userId : i \in 1..Len(gs.players)}
                       \ {gs.roundWinnerId}
           pens == PenaltyMap(payoutData.penalties, <<>>)
           payouts ==
             [u \in {gs.roundWinnerId} \cup others \cup DOMAIN pens |->
                IF u \in DOMAIN pens THEN pens[u]
                ELSE IF u \in others THEN 0 - gs.baseStake
                ELSE payoutData.winnerPayout]
       IN IF settled.ok
          THEN Ok([gs EXCEPT !.payouts = payouts], settled.db)
          ELSE Throw(gs, settled.db, "Wallet settlement transaction failed")

\* initializeGame: deal, build the state, collect the antes, check the
\* automatic wins (and settle at once when there is one).
NewPlayer(player, hand) ==
  [userId |-> player.userId, isAI |-> player.isAI, hand |-> hand,
   isHitLocked |-> FALSE, hitLockCounter |-> 0, spreads |-> <<>>,
   hasTakenActionThisTurn |-> FALSE, currentBuyIn |-> 0,
   restrictedDiscardCard |-> "null"]

initializeGame(stake, players, order, db) ==
  LET dealt == dealCards(shuffleDeck(createDeck, order), Len(players), CardsPerPlayer)
      initialPlayersState ==
        [i \in 1..Len(players) |-> NewPlayer(players[i], dealt.playerHands[i])]
      initialGameState ==
        [currentDealerIndex |-> 0, players |-> initialPlayersState,
         deck |-> dealt.remainingDeck, discardPile |-> <<>>, turn |-> 1,
         currentPlayerIndex |-> 0, lastAction |-> "null", status |-> "starting",
         baseStake |-> stake, pot |-> 0, lockedAntes |-> <<>>,
         roundEndedBy |-> "null", roundWinnerId |-> "",
         caughtDroppingPlayerId |-> "", handScores |-> <<>>, payouts |-> <<>>]
      bought == handleBuyIn(initialGameState, db)
      autoWinResult == checkForAutomaticWins(initialPlayersState)
      finalGameState ==
        [bought.gs EXCEPT
           !.currentDealerIndex = 0, !.currentPlayerIndex = -1,
           !.lastAction = "autoWin", !.status = "round-end",
           !.roundEndedBy = autoWinResult.type,
           !.roundWinnerId = autoWinResult.winnerId,
           !.handScores = calculateAllHandScores(bought.gs.players)]
  IN IF ~dealt.ok THEN Throw(initialGameState, db, "cannot deal")
     ELSE IF ~bought.ok THEN bought
     ELSE IF autoWinResult.type # "null"
          THEN handleRoundEndPayouts(finalGameState, bought.db)
          ELSE bought

\* nextTurn that keeps the players' restrictedDiscardCard.
nextTurn_KeepRestricted(gs) ==
  [gs EXCEPT
     !.currentPlayerIndex = (gs.currentPlayerIndex + 1) % Len(gs.players),
     !.turn = gs.turn + 1,
     !.lastAction = "null",
     !.players =
        [i \in 1..Len(gs.players) |->
           [gs.players[i] EXCEPT
              !.hasTakenActionThisTurn = FALSE,
              !.hitLockCounter =
                 IF gs.players[i].hitLockCounter - 1 > 0
                 THEN gs.players[i].hitLockCounter - 1 ELSE 0,
              !.isHitLocked = gs.players[i].hitLockCounter > 0]]]

\* nextTurn with isHitLocked taken from the decremented counter.
nextTurn_LockFromNewCounter(gs) ==
  [gs EXCEPT
     !.currentPlayerIndex = (gs.currentPlayerIndex + 1) % Len(gs.players),
     !.turn = gs.turn + 1,
     !.lastAction = "null",
     !.players =
        [i \in 1..Len(gs.players) |->
           [gs.players[i] EXCEPT
              !.hasTakenActionThisTurn = FALSE,
              !.hitLockCounter =
                 IF gs.players[i].hitLockCounter - 1 > 0
                 THEN gs.players[i].hitLockCounter - 1 ELSE 0,
              !.isHitLocked = gs.players[i].hitLockCounter - 1 > 0,
              !.restrictedDiscardCard = "null"]]]

\* nextTurn.
nextTurn(gs) ==
  [gs EXCEPT
     !.currentPlayerIndex = (gs.currentPlayerIndex + 1) % Len(gs.players),
     !.turn = gs.turn + 1,
     !.lastAction = "null",
     !.players =
        [i \in 1..Len(gs.players) |->
           [gs.players[i] EXCEPT
              !.hasTakenActionThisTurn = FALSE,
              !.hitLockCounter =
                 IF gs.players[i].hitLockCounter - 1 > 0
                 THEN gs.players[i].hitLockCounter - 1 ELSE 0,
              !.isHitLocked = gs.players[i].hitLockCounter > 0,
              !.restrictedDiscardCard = "null"]]]

\* playerDrawCard, the deck-empty branch: the first player in seat order
\* with the lowest hand value.
LowestScoreWinner(players) ==
  LET S == {i \in 1..Len(players) :
              \A j \in 1..Len(players) :
                 /\ calculateHandValue(players[i].hand)
                      <= calculateHandValue(players[j].hand)
                 /\ (j < i => calculateHandValue(players[j].hand)
                                > calculateHandValue(players[i].hand))}
  IN IF S = {} THEN "" ELSE players[CHOOSE i \in S : TRUE].userId

playerDrawCard(gs, db, userId, source) ==
  LET playerIndex == PlayerIndex(gs.players, userId)
      player == gs.players[playerIndex + 1]
      fromDiscard == source = "discard"
      drawnCard == IF fromDiscard THEN gs.discardPile[Len(gs.discardPile)]
                   ELSE Head(gs.deck)
      deckEmptyState ==
        [gs EXCEPT !.status = "round-end", !.roundEndedBy = "DECK_EMPTY",
                   !.roundWinnerId = LowestScoreWinner(gs.players),
                   !.lastAction = "deckEmpty",
                   !.handScores = calculateAllHandScores(gs.players)]
  IN IF playerIndex = -1 THEN Throw(gs, db, "player not found")
     ELSE IF fromDiscard /\ gs.discardPile = <<>>
          THEN Throw(gs, db, "Discard pile is empty.")
     ELSE IF ~fromDiscard /\ gs.deck = <<>>
          THEN LET paid == handleRoundEndPayouts(deckEmptyState, db)
               IN IF paid.ok THEN paid ELSE Throw(gs, paid.db, paid.error)
     ELSE Ok([gs EXCEPT
                !.deck = IF fromDiscard THEN gs.deck ELSE Tail(gs.deck),
                !.discardPile =
                   IF fromDiscard
                   THEN SubSeq(gs.discardPile, 1, Len(gs.discardPile) - 1)
                   ELSE gs.discardPile,
                !.players =
                   SetPlayer(gs.players, playerIndex,
                     [player EXCEPT
                        !.hand = Append(player.hand, drawnCard),
                        !.hasTakenActionThisTurn = TRUE,
                        !.restrictedDiscardCard =
                           IF fromDiscard THEN CardKey(drawnCard) ELSE "null"]),
                !.lastAction = "drawCard"], db)

\* playerDiscardCard.
playerDiscardCard(gs, db, userId, cardToDiscard) ==
  LET playerIndex == PlayerIndex(gs.players, userId)
      player == gs.players[playerIndex + 1]
      cardIndex == CardIndex(player.hand, cardToDiscard)
  IN IF playerIndex = -1 THEN Throw(gs, db, "player not found")
     ELSE IF player.restrictedDiscardCard = CardKey(cardToDiscard)
          THEN Throw(gs, db, "Cannot discard the card that was just picked up")
     ELSE IF cardIndex = 0 THEN Throw(gs, db, "does not have card to discard")
     ELSE Ok([gs EXCEPT
                !.players =
                   SetPlayer(gs.players, playerIndex,
                     [player EXCEPT !.hand = RemoveAt(player.hand, cardIndex),
                                    !.hasTakenActionThisTurn = TRUE]),
                !.discardPile = Append(gs.discardPile, cardToDiscard),
                !.lastAction = "discardCard"], db)

\* isValidSpread.
isValidSpread(cards) ==
  LET sortedCards == SortByRank(cards)
  IN IF Len(cards) < 3 THEN FALSE
     ELSE IF \A i \in 1..Len(cards) : cards[i].rank = cards[1].rank THEN TRUE
     ELSE IF ~(\A i \in 1..Len(cards) : cards[i].suit = cards[1].suit) THEN FALSE
     ELSE \A i \in 1..(Len(sortedCards) - 1) :
             getCardNumericalRank(sortedCards[i + 1].rank)
               - getCardNumericalRank(sortedCards[i].rank) = 1

\* checkReem.
\* checkReem without the test of the hand.
checkReem_TwoSpreadsOnly(gs, userId) ==
  LET playerIndex == PlayerIndex(gs.players, userId)
  IN /\ playerIndex # -1
     /\ Len(gs.players[playerIndex + 1].spreads) = 2

checkReem(gs, userId) ==
  LET playerIndex == PlayerIndex(gs.players, userId)
  IN /\ playerIndex # -1
     /\ Len(gs.players[playerIndex + 1].spreads) = 2
     /\ Len(gs.players[playerIndex + 1].hand) = 0

\* playerSpreadCards, step 2: every card named is in the hand, counting
\* repeated names (the handCardMap countdown).
HandCovers(hand, cards) ==
  \A i \in 1..Len(cards) :
     Cardinality({j \in 1..i : SameCard(cards[j], cards[i])})
       <= Cardinality({j \in 1..Len(hand) : SameCard(hand[j], cards[i])})

\* playerSpreadCards, step 3: splice each named card out of the hand.
RECURSIVE RemoveCards(_, _)
RemoveCards(hand, cards) ==
  IF cards = <<>> THEN hand
  ELSE LET index == CardIndex(hand, Head(cards))
       IN RemoveCards(IF index # 0 THEN RemoveAt(hand, index) ELSE hand, Tail(cards))

playerSpreadCards(gs, db, userId, cardsToSpread) ==
  LET playerIndex == PlayerIndex(gs.players, userId)
      player == gs.players[playerIndex + 1]
      updatedPlayer ==
        [player EXCEPT !.hand = RemoveCards(player.hand, cardsToSpread),
                       !.spreads = Append(player.spreads, cardsToSpread),
                       !.hasTakenActionThisTurn = TRUE]
      updatedGameState ==
        [gs EXCEPT !.players = SetPlayer(gs.players, playerIndex, updatedPlayer),
                   !.lastAction = "spread"]
      reemState ==
        [updatedGameState EXCEPT
           !.status = "round-end", !.lastAction = "reem",
           !.roundEndedBy = "REEM", !.roundWinnerId = userId,
           !.handScores = calculateAllHandScores(updatedGameState.players)]
  IN IF playerIndex = -1 THEN Throw(gs, db, "player not found")
     ELSE IF ~isValidSpread(cardsToSpread) THEN Throw(gs, db, "Invalid spread")
     ELSE IF ~HandCovers(player.hand, cardsToSpread)
          THEN Throw(gs, db, "does not have card in hand")
     ELSE IF checkReem(updatedGameState, userId)
          THEN LET paid == handleRoundEndPayouts(reemState, db)
               IN IF paid.ok THEN paid ELSE Throw(gs, paid.db, paid.error)
     ELSE Ok(updatedGameState, db)

\* canHitSpread that takes any card of the suit of a run.
canHitSpread_AnyOfSuit(spread, cardToAdd) ==
  IF Len(spread) = 0 THEN FALSE
  ELSE IF \A i \in 1..Len(spread) : spread[i].rank = spread[1].rank
       THEN /\ cardToAdd.rank = spread[1].rank
            /\ ~(\E i \in 1..Len(spread) : spread[i].suit = cardToAdd.suit)
  ELSE IF \A i \in 1..Len(spread) : spread[i].suit = spread[1].suit
       THEN cardToAdd.suit = spread[1].suit
  ELSE FALSE

\* canHitSpread.
canHitSpread(spread, cardToAdd) ==
  LET sortedSpread == SortByRank(spread)
      minRank == getCardNumericalRank(sortedSpread[1].rank)
      maxRank == getCardNumericalRank(sortedSpread[Len(sortedSpread)].rank)
      cardToAddRank == getCardNumericalRank(cardToAdd.rank)
  IN IF Len(spread) = 0 THEN FALSE
     ELSE IF \A i \in 1..Len(spread) : spread[i].rank = spread[1].rank
          THEN /\ cardToAdd.rank = spread[1].rank
               /\ ~(\E i \in 1..Len(spread) : spread[i].suit = cardToAdd.suit)
     ELSE IF \A i \in 1..Len(spread) : spread[i].suit = spread[1].suit
          THEN /\ cardToAdd.suit = spread[1].suit
               /\ (cardToAddRank = minRank - 1 \/ cardToAddRank = maxRank + 1)
     ELSE FALSE

\* playerHitSpread.  The hitting player's record is written first and the
\* target's second, both into a copy of the players of the state passed in.
playerHitSpread(gs, db, hittingPlayerId, cardToHitWith, targetPlayerId, targetSpreadIndex) ==
  LET hittingPlayerIndex == PlayerIndex(gs.players, hittingPlayerId)
      hittingPlayer == gs.players[hittingPlayerIndex + 1]
      targetPlayerIndex == PlayerIndex(gs.players, targetPlayerId)
      targetPlayer == gs.players[targetPlayerIndex + 1]
      cardInHandIndex == CardIndex(hittingPlayer.hand, cardToHitWith)
      targetSpread == targetPlayer.spreads[targetSpreadIndex + 1]
      updatedTargetSpread == SortByRank(Append(targetSpread, cardToHitWith))
      updatedTarget ==
        [targetPlayer EXCEPT
           !.spreads = [targetPlayer.spreads EXCEPT
                          ![targetSpreadIndex + 1] = updatedTargetSpread],
           !.isHitLocked = TRUE,
           !.hitLockCounter =
              targetPlayer.hitLockCounter
                + (IF targetPlayer.isHitLocked THEN 1 ELSE 2)]
      updatedHittingPlayer ==
        [hittingPlayer EXCEPT
           !.hand = RemoveAt(hittingPlayer.hand, cardInHandIndex),
           !.hasTakenActionThisTurn = TRUE]
  IN IF hittingPlayerIndex = -1 THEN Throw(gs, db, "hitting player not found")
     ELSE IF targetPlayerIndex = -1 THEN Throw(gs, db, "target player not found")
     ELSE IF cardInHandIndex = 0 THEN Throw(gs, db, "does not have card to hit")
     ELSE IF targetSpreadIndex < 0 \/ targetSpreadIndex >= Len(targetPlayer.spreads)
          THEN Throw(gs, db, "Invalid target spread index")
     ELSE IF ~canHitSpread(targetSpread, cardToHitWith)
          THEN Throw(gs, db, "cannot hit the target spread")
     ELSE Ok([gs EXCEPT
                !.players =
                   SetPlayer(SetPlayer(gs.players, hittingPlayerIndex,
                                       updatedHittingPlayer),
                             targetPlayerIndex, updatedTarget),
                !.lastAction = "hit"], db)

\* playerDrop without the hit-lock guard.
playerDrop_NoHitLockGuard(gs, db, userId) ==
  LET playerIndex == PlayerIndex(gs.players, userId)
      player == gs.players[playerIndex + 1]
      dropState ==
        [gs EXCEPT !.status = "round-end", !.lastAction = "drop",
                   !.roundEndedBy = "REGULAR", !.roundWinnerId = userId,
                   !.handScores = calculateAllHandScores(gs.players)]
  IN IF playerIndex = -1 THEN Throw(gs, db, "player not found")
     ELSE IF gs.currentPlayerIndex # playerIndex THEN Throw(gs, db, "not your turn")
     ELSE IF player.hasTakenActionThisTurn
          THEN Throw(gs, db, "cannot drop after taking an action this turn")
     ELSE LET paid == handleRoundEndPayouts(dropState, db)
          IN IF paid.ok THEN paid ELSE Throw(gs, paid.db, paid.error)

\* playerDrop.
playerDrop(gs, db, userId) ==
  LET playerIndex == PlayerIndex(gs.players, userId)
      player == gs.players[playerIndex + 1]
      dropState ==
        [gs EXCEPT !.status = "round-end", !.lastAction = "drop",
                   !.roundEndedBy = "REGULAR", !.roundWinnerId = userId,
                   !.handScores = calculateAllHandScores(gs.players)]
  IN IF playerIndex = -1 THEN Throw(gs, db, "player not found")
     ELSE IF gs.currentPlayerIndex # playerIndex THEN Throw(gs, db, "not your turn")
     ELSE IF player.hasTakenActionThisTurn
          THEN Throw(gs, db, "cannot drop after taking an action this turn")
     ELSE IF player.isHitLocked THEN Throw(gs, db, "cannot drop while hit-locked")
     ELSE LET paid == handleRoundEndPayouts(dropState, db)
          IN IF paid.ok THEN paid ELSE Throw(gs, paid.db, paid.error)

(***************************************************************************)
(* State.                                                                  *)
(*   table       the Table document of the one table modelled              *)
(*   gameStore   the Redis key game:<tableId>: <<>> when absent, else      *)
(*               <<gameState>>                                             *)
(*   db          the Wallet, Match and Transaction collections             *)
(*   socketTable socket.tableId is set, per client                         *)
(*   leaving     the Redis set table:<tableId>:players:leaving             *)
(*   lastEvent   the last client event a handler accepted, with what the   *)
(*               handler found in the state it loaded (history)            *)
(*   pickedUp    userId -> keys of the cards drawn from the discard pile   *)
(*               since the last nextTurn (history)                         *)
(*   hitTurn     userId -> the turn in which a hit landed on a spread of   *)
(*               that player while not hit-locked, 0 if none or if another *)
(*               hit landed since (history)                                *)
(*   nEvents     number of events applied so far                           *)
(*   lock        the Redis key lock:table:<tableId>: held or not, and the  *)
(*               seconds left before it expires                            *)
(*   leavePc     per client, where its call of handlePlayerLeave stands    *)
(*   timers      round-transition timers (setTimeout 30000) outstanding    *)
(*   botTicks    per bot, the bot ticks (setTimeout 1000 of handleAITurn)  *)
(*               outstanding that captured it as the current player        *)
(*   inflight    per client, what its handler has loaded and not yet saved *)
(***************************************************************************)
VARIABLES table, gameStore, db, socketTable, leaving, lastEvent, pickedUp, hitTurn,
          nEvents, lock, leavePc, timers, botTicks, inflight

vars == <<table, gameStore, db, socketTable, leaving, lastEvent, pickedUp, hitTurn,
          nEvents, lock, leavePc, timers, botTicks, inflight>>

Humans == {"h1", "h2"}
Bots == {"b1"}
UserIds == Humans \cup Bots

Seat(userId) == [userId |-> userId, isAI |-> userId \in Bots]

\* Seat lists a table can have when a round starts, and the players of that
\* round: two humans (the bot of the first round evicted by the round
\* transition); one human with the bot injected at the first join, and a
\* second human who joined during the round.
Setups ==
  << [seats |-> <<"h1", "h2">>,       playing |-> <<"h1", "h2">>],
     [seats |-> <<"h1", "b1", "h2">>, playing |-> <<"h1", "b1">>] >>

HasGame == Len(gameStore) = 1
GS == gameStore[1]

\* `updates` counts the gameStateUpdate broadcasts of a game event's handler
\* to the room of the table, `errorTo` is the client its gameError went to
\* ("" when it emitted none).
NoEvent ==
  [type |-> "none", userId |-> "", error |-> "", wasTurn |-> FALSE,
   hadActed |-> FALSE,
   wasLocked |-> FALSE, pickedUpCard |-> FALSE, updates |-> 0, errorTo |-> ""]

\* An event of `userId` that its handler accepted, with what the handler
\* found in the state it loaded; `card` is the key of the card named ("" if
\* none).  `error` is the message of the error an engine call threw in a
\* handler that does not catch it ("" when none was thrown).
Event(type, userId, card) ==
  LET i == PlayerIndex(GS.players, userId)
  IN [type |-> type, userId |-> userId, error |-> "",
      wasTurn |-> i # -1 /\ GS.currentPlayerIndex = i,
      hadActed |-> i # -1 /\ GS.players[i + 1].hasTakenActionThisTurn,
      wasLocked |-> i # -1 /\ GS.players[i + 1].isHitLocked,
      pickedUpCard |-> card \in pickedUp[userId],
      updates |-> 1, errorTo |-> ""]

ClientRanks ==
  {RANKS_AND_VALUES[i].rank :
     i \in (Len(RANKS_AND_VALUES) - NumClientRanks + 1)..Len(RANKS_AND_VALUES)}

\* The card objects clients put in their payloads.
ClientCards == {createDeck[i] : i \in {j \in 1..Len(createDeck) :
                                         createDeck[j].rank \in ClientRanks}}

DeckIndex(card) == CHOOSE i \in 1..Len(createDeck) : SameCard(createDeck[i], card)

\* The cards[] payloads of spread events: three cards of one rank or of one
\* suit in deck order, the first two of such a triple (a pair), and such a
\* triple with its second card named twice.
ClientTriples ==
  {t \in {<<a, b, c>> : a \in ClientCards, b \in ClientCards, c \in ClientCards} :
     /\ DeckIndex(t[1]) < DeckIndex(t[2])
     /\ DeckIndex(t[2]) < DeckIndex(t[3])
     /\ \/ t[1].rank = t[2].rank /\ t[2].rank = t[3].rank
        \/ t[1].suit = t[2].suit /\ t[2].suit = t[3].suit}

ClientSpreads ==
  ClientTriples
    \cup {<<t[1], t[2]>> : t \in ClientTriples}
    \cup {<<t[1], t[2], t[2]>> : t \in ClientTriples}

\* The targetSpreadIndex values of hit events.
ClientSpreadIndexes == {0, 1}

\* The lock key of the table: absent, or set with EX seconds to live.
LockFree == [held |-> FALSE, ttl |-> 0]

NoTicks == [b \in Bots |-> 0]

\* A handler that is not between its load and its save.
NotLoaded == [kind |-> "none", store |-> <<>>, table |-> <<>>, arg |-> <<>>]

\* handleRoundTransition(io, tableId), called by a handler that saved the
\* state `gs`: the handlers of draw, discard and spread call it when the
\* saved status is round-end; it only starts the 30 second timer.
TimersAfter(gs) == IF gs.status = "round-end" THEN timers + 1 ELSE timers

\* handleAITurn up to its setTimeout: it loads the state and starts a tick
\* for the current player when that player is a bot.
TicksAfter(store) ==
  IF /\ Len(store) = 1
     /\ store[1].currentPlayerIndex \in 0..(Len(store[1].players) - 1)
     /\ store[1].players[store[1].currentPlayerIndex + 1].isAI
  THEN [botTicks EXCEPT ![store[1].players[store[1].currentPlayerIndex + 1].userId] = @ + 1]
  ELSE botTicks

\* handlePlayerLeave resetting the table of its last human without evicting
\* the bots.
handlePlayerLeave_KeepBots(tbl, store, userId) ==
  LET pulled == SelectSeq(tbl.players, LAMBDA p : p.userId # userId)
      count == tbl.currentPlayerCount - 1
      humansLeft == SelectSeq(pulled, LAMBDA p : ~p.isAI)
      filterGame(keep(_)) ==
        IF Len(store) = 1
        THEN <<[store[1] EXCEPT !.players = SelectSeq(store[1].players, keep)]>>
        ELSE store
  IN IF Len(humansLeft) = 0
     THEN [table |-> [tbl EXCEPT !.players = pulled, !.currentPlayerCount = count,
                                 !.status = "waiting"],
           gameStore |-> <<>>]
     ELSE IF count < tbl.minPlayers /\ tbl.status = "in-game"
     THEN [table |-> [tbl EXCEPT !.players = humansLeft,
                                 !.currentPlayerCount = Len(humansLeft),
                                 !.status = "waiting"],
           gameStore |-> filterGame(LAMBDA p : ~p.isAI /\ p.userId # userId)]
     ELSE [table |-> [tbl EXCEPT !.players = pulled, !.currentPlayerCount = count],
           gameStore |-> filterGame(LAMBDA p : p.userId # userId)]

(***************************************************************************)
(* handlePlayerLeave (with the per-table lock taken and released inside):  *)
(* [table, gameStore] after the call.                                      *)
(***************************************************************************)
handlePlayerLeave(tbl, store, userId) ==
  LET pulled == SelectSeq(tbl.players, LAMBDA p : p.userId # userId)
      count == tbl.currentPlayerCount - 1
      humansLeft == SelectSeq(pulled, LAMBDA p : ~p.isAI)
      filterGame(keep(_)) ==
        IF Len(store) = 1
        THEN <<[store[1] EXCEPT !.players = SelectSeq(store[1].players, keep)]>>
        ELSE store
  IN IF Len(humansLeft) = 0
     THEN [table |-> [tbl EXCEPT !.players = <<>>, !.currentPlayerCount = 0,
                                 !.status = "waiting"],
           gameStore |-> <<>>]
     ELSE IF count < tbl.minPlayers /\ tbl.status = "in-game"
     THEN [table |-> [tbl EXCEPT !.players = humansLeft,
                                 !.currentPlayerCount = Len(humansLeft),
                                 !.status = "waiting"],
           gameStore |-> filterGame(LAMBDA p : ~p.isAI /\ p.userId # userId)]
     ELSE [table |-> [tbl EXCEPT !.players = pulled, !.currentPlayerCount = count],
           gameStore |-> filterGame(LAMBDA p : p.userId # userId)]

(***************************************************************************)
(* Init: a round just started by initializeGame at a table with one of the *)
(* seat lists of Setups; every registered user has a wallet holding the    *)
(* balance joinTable asks for.  Documents of earlier rounds are left out.  *)
(***************************************************************************)
InitialDb ==
  [wallets |-> [u \in Humans |->
                  [availableBalance |-> JoinBalanceFactor * TableStake,
                   matchEarningsHistory |-> <<>>]],
   matches |-> <<>>, transactions |-> <<>>]

Init ==
  \E k \in 1..Len(Setups), seed \in 1..NumShuffles :
    LET setup == Setups[k]
        started == initializeGame(TableStake,
                                  [i \in 1..Len(setup.playing) |-> Seat(setup.playing[i])],
                                  ShuffleOrder(seed), InitialDb)
    IN /\ started.ok
       /\ table = [players |-> [i \in 1..Len(setup.seats) |-> Seat(setup.seats[i])],
                   currentPlayerCount |-> Len(setup.seats),
                   status |-> "in-game", stake |-> TableStake,
                   minPlayers |-> MinPlayers, maxPlayers |-> MaxPlayers]
       /\ gameStore = <<started.gs>>
       /\ db = started.db
       /\ socketTable = [u \in Humans |-> \E i \in 1..Len(setup.seats) : setup.seats[i] = u]
       /\ leaving = {}
       /\ lastEvent = NoEvent
       /\ pickedUp = [u \in UserIds |-> {}]
       /\ hitTurn = [u \in UserIds |-> 0]
       /\ nEvents = 0
       /\ lock = LockFree
       /\ leavePc = [u \in Humans |-> "idle"]
       /\ timers = 0
       /\ botTicks = NoTicks
       /\ inflight = [u \in Humans |-> NotLoaded]

(***************************************************************************)
(* The socket handlers of the game actions: load the state, apply the      *)
(* engine function, save and broadcast.  The handlers take the userId of   *)
(* the payload.  When the engine function throws, the handler emits        *)
(* gameError to the sender and stores nothing: such an event is no step.   *)
(* The bot's turn (handleAITurn) and the round transition run from timers  *)
(* that these handlers only start; they are not among the events here.     *)
(***************************************************************************)
\* socket.on("drawCard")
DrawCard(userId, source) ==
  /\ nEvents < MaxEvents
  /\ HasGame
  /\ LET res == playerDrawCard(GS, db, userId, source)
     IN /\ res.ok
        /\ gameStore' = <<res.gs>>
        /\ db' = res.db
        /\ lastEvent' = Event("drawCard", userId, "")
        /\ pickedUp' =
             IF source = "discard"
             THEN [pickedUp EXCEPT
                     ![userId] = @ \cup {CardKey(GS.discardPile[Len(GS.discardPile)])}]
             ELSE pickedUp
        /\ timers' = TimersAfter(res.gs)
  /\ nEvents' = nEvents + 1
  /\ UNCHANGED <<table, socketTable, leaving, hitTurn, lock, leavePc, botTicks, inflight>>

\* socket.on("discardCard"): a discard accepted in a round that has not
\* ended is followed by nextTurn.
DiscardCard(userId, card) ==
  /\ nEvents < MaxEvents
  /\ HasGame
  /\ LET res == playerDiscardCard(GS, db, userId, card)
         turnEnds == res.gs.status # "round-end"
     IN /\ res.ok
        /\ gameStore' = <<IF turnEnds THEN nextTurn(res.gs) ELSE res.gs>>
        /\ db' = res.db
        /\ lastEvent' = [Event("discardCard", userId, CardKey(card)) EXCEPT
                           !.updates = IF turnEnds THEN 2 ELSE 1]
        /\ pickedUp' = IF turnEnds THEN [u \in UserIds |-> {}] ELSE pickedUp
        /\ timers' = TimersAfter(res.gs)
        /\ botTicks' = IF turnEnds THEN TicksAfter(<<nextTurn(res.gs)>>) ELSE botTicks
  /\ nEvents' = nEvents + 1
  /\ UNCHANGED <<table, socketTable, leaving, hitTurn, lock, leavePc, inflight>>

\* socket.on("spread")
Spread(userId, cards) ==
  /\ nEvents < MaxEvents
  /\ HasGame
  /\ LET res == playerSpreadCards(GS, db, userId, cards)
     IN /\ res.ok
        /\ gameStore' = <<res.gs>>
        /\ db' = res.db
        /\ lastEvent' = Event("spread", userId, "")
        /\ timers' = TimersAfter(res.gs)
  /\ nEvents' = nEvents + 1
  /\ UNCHANGED <<table, socketTable, leaving, pickedUp, hitTurn, lock, leavePc, botTicks,
                 inflight>>

\* socket.on("hit")
Hit(userId, card, targetPlayerId, targetSpreadIndex) ==
  /\ nEvents < MaxEvents
  /\ HasGame
  /\ LET res == playerHitSpread(GS, db, userId, card, targetPlayerId, targetSpreadIndex)
         target == GS.players[PlayerIndex(GS.players, targetPlayerId) + 1]
     IN /\ res.ok
        /\ gameStore' = <<res.gs>>
        /\ db' = res.db
        /\ lastEvent' = Event("hit", userId, "")
        /\ hitTurn' = [hitTurn EXCEPT
                         ![targetPlayerId] = IF target.isHitLocked THEN 0 ELSE GS.turn]
  /\ nEvents' = nEvents + 1
  /\ UNCHANGED <<table, socketTable, leaving, pickedUp, lock, leavePc, timers, botTicks,
                 inflight>>

\* socket.on("drop")
Drop(userId) ==
  /\ nEvents < MaxEvents
  /\ HasGame
  /\ LET res == playerDrop(GS, db, userId)
     IN /\ res.ok
        /\ gameStore' = <<res.gs>>
        /\ db' = res.db
        /\ lastEvent' = Event("drop", userId, "")
  /\ timers' = timers + 1
  /\ nEvents' = nEvents + 1
  /\ UNCHANGED <<table, socketTable, leaving, pickedUp, hitTurn, lock, leavePc, botTicks,
                 inflight>>

\* socket.on("leaveTable"), sent by a client for itself: deferred to the end
\* of the round when the stored status is in-progress, else the socket's
\* table is cleared and handlePlayerLeave runs.
LeaveTable(userId) ==
  /\ nEvents < MaxEvents
  /\ socketTable[userId]
  /\ IF HasGame /\ GS.status = "in-progress"
     THEN /\ leaving' = leaving \cup {userId}
          /\ UNCHANGED <<table, gameStore, socketTable>>
     ELSE LET left == handlePlayerLeave(table, gameStore, userId)
          IN /\ table' = left.table
             /\ gameStore' = left.gameStore
             /\ socketTable' = [socketTable EXCEPT ![userId] = FALSE]
             /\ UNCHANGED leaving
  /\ lastEvent' = [NoEvent EXCEPT !.type = "leave", !.userId = userId]
  /\ nEvents' = nEvents + 1
  /\ UNCHANGED <<db, pickedUp, hitTurn, lock, leavePc, timers, botTicks, inflight>>

\* socket.on("disconnect") of a socket that joined the table.
Disconnect(userId) ==
  /\ nEvents < MaxEvents
  /\ socketTable[userId]
  /\ LET left == handlePlayerLeave(table, gameStore, userId)
     IN /\ table' = left.table
        /\ gameStore' = left.gameStore
  /\ socketTable' = [socketTable EXCEPT ![userId] = FALSE]
  /\ lastEvent' = [NoEvent EXCEPT !.type = "leave", !.userId = userId]
  /\ nEvents' = nEvents + 1
  /\ UNCHANGED <<db, leaving, pickedUp, hitTurn, lock, leavePc, timers, botTicks,
                 inflight>>

Next ==
  \/ \E u \in Humans, source \in {"deck", "discard"} : DrawCard(u, source)
  \/ \E u \in Humans, card \in ClientCards : DiscardCard(u, card)
  \/ \E u \in Humans, cards \in ClientSpreads : Spread(u, cards)
  \/ \E u \in Humans, card \in ClientCards, target \in UserIds,
        index \in ClientSpreadIndexes : Hit(u, card, target, index)
  \/ \E u \in Humans : Drop(u)
  \/ \E u \in Humans : LeaveTable(u)
  \/ \E u \in Humans : Disconnect(u)

Spec == Init /\ [][Next]_vars

(***************************************************************************)
(* The start of a round.  A round is started by joinTable (and by the      *)
(* round transition) with a call of initializeGame for the seated players  *)
(* of the table; the deal is one of the outcomes of the shuffle.           *)
(***************************************************************************)
\* Hands a deal can give, as positions of createDeck, of the values that
\* checkForAutomaticWins tells apart.
SampleHands ==
  { <<1, 2, 3, 4, 11>>,       \* A-H 2-H 3-H 4-H A-D: 11
    <<7, 8, 9, 10, 14>>,      \* 7-H J-H Q-H K-H 4-D: 41
    <<17, 18, 19, 20, 38>>,   \* 7-D J-D Q-D K-D J-S: 47
    <<28, 29, 30, 39, 40>>,   \* J-C Q-C K-C Q-S K-S: 50
    <<5, 15, 25, 6, 16>>,     \* 5-H 5-D 5-C 6-H 6-D: 27
    <<35, 36, 37, 27, 12>>,   \* 5-S 6-S 7-S 7-C 2-D: 27
    <<13, 32, 33, 34, 24>> }  \* 3-D 2-S 3-S 4-S 4-C: 16

\* The deals of n of these hands to n seats.
SampleDeals(n) ==
  {d \in [1..n -> SampleHands] : \A i, j \in 1..n : i # j => d[i] # d[j]}

\* The outcome of the shuffle that deals hands[j] to seat j: the hands'
\* cards interleaved as dealCards hands them out, then the other cards in
\* the order of ShuffleOrder(18), which has 6-Clubs on top.
StackedOrder(hands) ==
  LET n == Len(hands)
      dealtCards == {hands[j][i] : j \in 1..n, i \in 1..CardsPerPlayer}
      head == [k \in 1..(n * CardsPerPlayer) |->
                 hands[((k - 1) % n) + 1][((k - 1) \div n) + 1]]
  IN head \o SelectSeq(ShuffleOrder(18), LAMBDA c : c \notin dealtCards)

\* The seat lists of the tables: the bot joinTable adds sits second.
RoundSeats ==
  { <<"h1", "h2">>, <<"h1", "b1">>, <<"h1", "b1", "h2">>, <<"h2", "b1", "h1">> }

\* The wallet balances of the registered users before the round.
RoundBalances == {5, 20, 100}

InitRound ==
  \E seats \in RoundSeats, balance \in [Humans -> RoundBalances] :
    /\ table = [players |-> [i \in 1..Len(seats) |-> Seat(seats[i])],
                currentPlayerCount |-> Len(seats),
                status |-> "waiting", stake |-> TableStake,
                minPlayers |-> Len(seats), maxPlayers |-> MaxPlayers]
    /\ gameStore = <<>>
    /\ db = [wallets |-> [u \in Humans |->
                            [availableBalance |-> balance[u],
                             matchEarningsHistory |-> <<>>]],
             matches |-> <<>>, transactions |-> <<>>]
    /\ socketTable = [u \in Humans |-> \E i \in 1..Len(seats) : seats[i] = u]
    /\ leaving = {}
    /\ lastEvent = NoEvent
    /\ pickedUp = [u \in UserIds |-> {}]
    /\ hitTurn = [u \in UserIds |-> 0]
    /\ nEvents = 0
    /\ lock = LockFree
    /\ leavePc = [u \in Humans |-> "idle"]
    /\ timers = 0
    /\ botTicks = NoTicks
    /\ inflight = [u \in Humans |-> NotLoaded]

\* joinTable, the start of the game at a waiting table that has its
\* minPlayers: initializeGame for the seated players, then saveGameState.
\* initializeGame's error is not caught: nothing is stored then, and what
\* it had written to the wallets stays.  The event records the automatic
\* winner of the deal as userId.
StartRound(order) ==
  /\ nEvents < MaxEvents
  /\ table.status = "waiting"
  /\ table.currentPlayerCount >= table.minPlayers
  /\ LET res == initializeGame(table.stake, table.players, order, db)
         autoWin == checkForAutomaticWins(
                      [i \in 1..Len(table.players) |->
                         [userId |-> table.players[i].userId,
                          hand |-> dealCards(shuffleDeck(createDeck, order),
                                             Len(table.players),
                                             CardsPerPlayer).playerHands[i]]])
     IN /\ IF res.ok
           THEN /\ gameStore' = <<res.gs>>
                /\ table' = [table EXCEPT !.status = "in-game"]
                /\ botTicks' = TicksAfter(<<res.gs>>)
           ELSE UNCHANGED <<gameStore, table, botTicks>>
        /\ db' = res.db
        /\ lastEvent' = [NoEvent EXCEPT !.type = "startRound",
                                        !.userId = autoWin.winnerId,
                                        !.error = res.error]
  /\ nEvents' = nEvents + 1
  /\ UNCHANGED <<socketTable, leaving, pickedUp, hitTurn, lock, leavePc, timers, inflight>>

\* socket.on("drawCard") with source deck, sent by the player whose turn it
\* is.  The deck bounds the number of these events.
DrawFromDeckInTurn ==
  /\ HasGame
  /\ GS.currentPlayerIndex \in 0..(Len(GS.players) - 1)
  /\ LET userId == GS.players[GS.currentPlayerIndex + 1].userId
         res == playerDrawCard(GS, db, userId, "deck")
     IN /\ res.ok
        /\ gameStore' = <<res.gs>>
        /\ db' = res.db
        /\ lastEvent' = Event("drawCard", userId, "")
        /\ timers' = TimersAfter(res.gs)
  /\ nEvents' = nEvents + 1
  /\ UNCHANGED <<table, socketTable, leaving, pickedUp, hitTurn, lock, leavePc, botTicks,
                 inflight>>

\* The cards[] payloads of the spread events of these rounds: the 5s, the
\* 6s and 5-6-7 of Spades.
RoundSpreads ==
  { <<createDeck[5], createDeck[15], createDeck[25]>>,
    <<createDeck[6], createDeck[16], createDeck[26]>>,
    <<createDeck[35], createDeck[36], createDeck[37]>> }

NextRound ==
  \/ \E hands \in SampleDeals(Len(table.players)) : StartRound(StackedOrder(hands))
  \/ DrawFromDeckInTurn
  \/ \E u \in Humans, cards \in RoundSpreads : Spread(u, cards)

SpecRound == InitRound /\ [][NextRound]_vars

(***************************************************************************)
(* The end of a round.  The engine functions that end a round (playerDrop, *)
(* playerSpreadCards on a reem, playerDrawCard on an empty deck,           *)
(* initializeGame on an automatic win) build the round-end state and pass  *)
(* it to handleRoundEndPayouts.  InitPayout draws that argument: a round   *)
(* dealt with no automatic win, the antes collected, ended in one of the   *)
(* ways of roundEndedBy with one of its players as the winner.             *)
(***************************************************************************)
RoundEndTypes == {"REGULAR", "REEM", "AUTO_TRIPLE", "CAUGHT_DROP", "DECK_EMPTY"}

\* The hands of SampleHands that are no automatic win, in a fixed order.
PlainDeal ==
  << <<5, 15, 25, 6, 16>>, <<35, 36, 37, 27, 12>>, <<13, 32, 33, 34, 24>> >>

InitPayout ==
  \E seats \in RoundSeats, balance \in [Humans -> RoundBalances],
     endedBy \in RoundEndTypes, winner \in UserIds, caught \in UserIds \cup {""} :
    LET players == [i \in 1..Len(seats) |-> Seat(seats[i])]
        started ==
          initializeGame(TableStake, players,
                         StackedOrder(SubSeq(PlainDeal, 1, Len(seats))),
                         [wallets |-> [u \in Humans |->
                                         [availableBalance |-> balance[u],
                                          matchEarningsHistory |-> <<>>]],
                          matches |-> <<>>, transactions |-> <<>>])
    IN /\ started.ok
       /\ PlayerIndex(players, winner) # -1
       /\ IF endedBy = "CAUGHT_DROP"
          THEN caught = "" \/ (caught # winner /\ PlayerIndex(players, caught) # -1)
          ELSE caught = ""
       /\ table = [players |-> players, currentPlayerCount |-> Len(seats),
                   status |-> "in-game", stake |-> TableStake,
                   minPlayers |-> Len(seats), maxPlayers |-> MaxPlayers]
       /\ gameStore =
            <<[started.gs EXCEPT
                 !.status = "round-end", !.roundEndedBy = endedBy,
                 !.roundWinnerId = winner, !.caughtDroppingPlayerId = caught,
                 !.handScores = calculateAllHandScores(started.gs.players)]>>
       /\ db = started.db
       /\ socketTable = [u \in Humans |-> \E i \in 1..Len(seats) : seats[i] = u]
       /\ leaving = {}
       /\ lastEvent = NoEvent
       /\ pickedUp = [u \in UserIds |-> {}]
       /\ hitTurn = [u \in UserIds |-> 0]
       /\ nEvents = 0
       /\ lock = LockFree
       /\ leavePc = [u \in Humans |-> "idle"]
       /\ timers = 0
       /\ botTicks = NoTicks
       /\ inflight = [u \in Humans |-> NotLoaded]

\* The call of handleRoundEndPayouts on the round-end state and the save of
\* its result by the handler; when it throws the handler stores nothing.
RoundEndPayouts ==
  /\ nEvents < MaxEvents
  /\ HasGame
  /\ lastEvent.type = "none"
  /\ LET res == handleRoundEndPayouts(GS, db)
     IN /\ gameStore' = IF res.ok THEN <<res.gs>> ELSE gameStore
        /\ db' = res.db
        /\ lastEvent' = [NoEvent EXCEPT !.type = "roundEnd",
                                        !.userId = GS.roundWinnerId,
                                        !.error = res.error]
  /\ nEvents' = nEvents + 1
  /\ UNCHANGED <<table, socketTable, leaving, pickedUp, hitTurn, lock, leavePc, timers,
                 botTicks, inflight>>

NextPayout == RoundEndPayouts

SpecPayout == InitPayout /\ [][NextPayout]_vars

(***************************************************************************)
(* handlePlayerLeave step by step, for the calls of several clients that   *)
(* run at once: the lock is taken with SET lock:table:<id> "locked" NX     *)
(* EX 10, the body runs inside try, and finally deletes the key.  The      *)
(* awaits of the body take any time; the key's seconds to live run down    *)
(* meanwhile and Redis removes the key when they are over.                 *)
(*   leavePc[u]: idle, critical (lock taken, body not yet run), finally    *)
(*   (body run, key not yet deleted), done, skipped (lock not acquired).   *)
(***************************************************************************)
\* The disconnect of a seated client: handlePlayerLeave is entered and tries
\* to take the lock; when the key exists the leave logic is skipped.
LeaveAcquire(userId) ==
  /\ socketTable[userId]
  /\ leavePc[userId] = "idle"
  /\ IF ~lock.held
     THEN /\ lock' = [held |-> TRUE, ttl |-> LockTTL]
          /\ leavePc' = [leavePc EXCEPT ![userId] = "critical"]
     ELSE /\ lock' = lock
          /\ leavePc' = [leavePc EXCEPT ![userId] = "skipped"]
  /\ socketTable' = [socketTable EXCEPT ![userId] = FALSE]
  /\ UNCHANGED <<table, gameStore, db, leaving, lastEvent, pickedUp, hitTurn, nEvents,
                 timers, botTicks, inflight>>

\* The body of the try block: the table document and the game state are
\* updated.
LeaveBody(userId) ==
  /\ leavePc[userId] = "critical"
  /\ LET left == handlePlayerLeave(table, gameStore, userId)
     IN /\ table' = left.table
        /\ gameStore' = left.gameStore
  /\ leavePc' = [leavePc EXCEPT ![userId] = "finally"]
  /\ lastEvent' = [NoEvent EXCEPT !.type = "leave", !.userId = userId]
  /\ UNCHANGED <<db, socketTable, leaving, pickedUp, hitTurn, nEvents, lock,
                 timers, botTicks, inflight>>

\* finally: redisClient.del(lockKey), whoever set the key.
LeaveRelease(userId) ==
  /\ leavePc[userId] = "finally"
  /\ lock' = LockFree
  /\ leavePc' = [leavePc EXCEPT ![userId] = "done"]
  /\ UNCHANGED <<table, gameStore, db, socketTable, leaving, lastEvent, pickedUp,
                 hitTurn, nEvents, timers, botTicks, inflight>>

\* A second passes while the key exists; after the last one the key is gone.
LockTick ==
  /\ lock.held
  /\ lock' = IF lock.ttl > 1 THEN [lock EXCEPT !.ttl = lock.ttl - 1] ELSE LockFree
  /\ UNCHANGED <<table, gameStore, db, socketTable, leaving, lastEvent, pickedUp,
                 hitTurn, nEvents, leavePc, timers, botTicks, inflight>>

NextLock ==
  \/ \E u \in Humans : LeaveAcquire(u)
  \/ \E u \in Humans : LeaveBody(u)
  \/ \E u \in Humans : LeaveRelease(u)
  \/ LockTick

SpecLock == Init /\ [][NextLock]_vars

(***************************************************************************)
(* The table over several rounds: joins, queued leaves and the round       *)
(* transition.  A handler that ends a round calls handleRoundTransition,   *)
(* which starts a timer of 30 seconds; its callback is the transition.     *)
(***************************************************************************)
\* socket.on("requestLeaveTable"): the userId is added to the set
\* table:<id>:players:leaving.
RequestLeaveTable(userId) ==
  /\ nEvents < MaxEvents
  /\ socketTable[userId]
  /\ leaving' = leaving \cup {userId}
  /\ lastEvent' = [NoEvent EXCEPT !.type = "requestLeave", !.userId = userId]
  /\ nEvents' = nEvents + 1
  /\ UNCHANGED <<table, gameStore, db, socketTable, pickedUp, hitTurn, lock, leavePc,
                 timers, botTicks, inflight>>

\* joinTable creates a bot with a fresh userId when the joining player is
\* the only one counted; the ids of Bots bound the bots that can be created.
BotAvailable(doc) ==
  doc.currentPlayerCount = 0 =>
    \E b \in Bots : \A i \in 1..Len(doc.players) : doc.players[i].userId # b

NewBot(doc) ==
  CHOOSE b \in Bots : \A i \in 1..Len(doc.players) : doc.players[i].userId # b

(***************************************************************************)
(* socket.on("joinTable") from the table document `doc` that findById      *)
(* returned: what the handler does to its copy of the document and to the  *)
(* stores.                                                                 *)
(*   error     the gameError emitted or the error thrown ("" if none)      *)
(*   joined    the socket joined the room of the table                     *)
(*   pushed    the seats pushed to doc.players                             *)
(*   doc       the handler's copy of the document at its end               *)
(*   started   the handler set status to in-game                           *)
(*   saved     table.save() was reached                                    *)
(*   ticks     the store handleAITurn loads (<<>> when it is not called)   *)
(***************************************************************************)
joinTable(doc, store, d, userId, order) ==
  LET unchanged == [error |-> "", joined |-> FALSE, pushed |-> <<>>, doc |-> doc,
                    started |-> FALSE, saved |-> FALSE, store |-> store, db |-> d,
                    ticks |-> <<>>]
      existingPlayer == \E i \in 1..Len(doc.players) : doc.players[i].userId = userId
      withBot == doc.currentPlayerCount + 1 = 1
      pushed == IF withBot THEN <<Seat(userId), Seat(NewBot(doc))>> ELSE <<Seat(userId)>>
      seated == [doc EXCEPT !.players = @ \o pushed,
                            !.currentPlayerCount = @ + Len(pushed)]
      init == initializeGame(seated.stake, seated.players, order, d)
  IN IF doc.currentPlayerCount >= doc.maxPlayers
     THEN [unchanged EXCEPT !.error = "Table is full."]
     ELSE IF \/ userId \notin DOMAIN d.wallets
             \/ d.wallets[userId].availableBalance < doc.stake * JoinBalanceFactor
     THEN [unchanged EXCEPT !.error = "Insufficient funds to join this table."]
     ELSE IF existingPlayer
     THEN IF Len(store) = 1
          THEN [unchanged EXCEPT !.joined = TRUE, !.ticks = store]
          ELSE [unchanged EXCEPT !.joined = TRUE,
                                 !.error = "No active game state found for this table."]
     ELSE IF seated.currentPlayerCount >= seated.minPlayers /\ seated.status = "waiting"
     THEN IF init.ok
          THEN [error |-> "", joined |-> TRUE, pushed |-> pushed,
                doc |-> [seated EXCEPT !.status = "in-game"], started |-> TRUE,
                saved |-> TRUE, store |-> <<init.gs>>, db |-> init.db,
                ticks |-> <<init.gs>>]
          ELSE [error |-> init.error, joined |-> TRUE, pushed |-> pushed,
                doc |-> [seated EXCEPT !.status = "in-game"], started |-> TRUE,
                saved |-> FALSE, store |-> store, db |-> init.db, ticks |-> <<>>]
     ELSE IF Len(store) = 1
     THEN [error |-> "", joined |-> TRUE, pushed |-> pushed, doc |-> seated,
           started |-> FALSE, saved |-> TRUE, store |-> store, db |-> d,
           ticks |-> store]
     ELSE IF init.ok
     THEN [error |-> "", joined |-> TRUE, pushed |-> pushed, doc |-> seated,
           started |-> FALSE, saved |-> TRUE, store |-> <<init.gs>>, db |-> init.db,
           ticks |-> <<init.gs>>]
     ELSE [error |-> init.error, joined |-> TRUE, pushed |-> pushed, doc |-> seated,
           started |-> FALSE, saved |-> TRUE, store |-> store, db |-> init.db,
           ticks |-> <<>>]

\* table.save() of a document on which seats were pushed and fields were
\* assigned: mongoose sends the pushed seats as $push and the assigned
\* fields as $set, on top of what the collection holds by then.
SaveTable(stored, res) ==
  IF res.saved
  THEN [stored EXCEPT !.players = @ \o res.pushed,
                      !.currentPlayerCount = res.doc.currentPlayerCount,
                      !.status = IF res.started THEN "in-game" ELSE @]
  ELSE stored

\* socket.on("joinTable"), handled without another event of the table in
\* between.  A join refused for a full table or for funds changes nothing.
JoinTable(userId, order) ==
  /\ nEvents < MaxEvents
  /\ BotAvailable(table)
  /\ LET res == joinTable(table, gameStore, db, userId, order)
     IN /\ res.joined
        /\ table' = SaveTable(table, res)
        /\ gameStore' = res.store
        /\ db' = res.db
        /\ socketTable' = [socketTable EXCEPT ![userId] = TRUE]
        /\ botTicks' = TicksAfter(res.ticks)
        /\ lastEvent' = [NoEvent EXCEPT !.type = "join", !.userId = userId,
                                        !.error = res.error]
  /\ nEvents' = nEvents + 1
  /\ UNCHANGED <<leaving, pickedUp, hitTurn, lock, leavePc, timers, inflight>>

\* The orders in which SMEMBERS can return the members of a set.
Orders(S) ==
  {seq \in [1..Cardinality(S) -> S] : \A i, j \in 1..Cardinality(S) :
                                         seq[i] = seq[j] => i = j}

\* The calls of handlePlayerLeave for the queued user ids, one after the
\* other: [table, gameStore] after them.  A call that finds the lock key set
\* returns without doing anything; one that takes it deletes it at its end.
RECURSIVE LeaveQueued(_, _, _, _)
LeaveQueued(tbl, store, userIds, lockHeld) ==
  IF userIds = <<>> \/ lockHeld
  THEN [table |-> tbl, gameStore |-> store]
  ELSE LET left == handlePlayerLeave(tbl, store, Head(userIds))
       IN LeaveQueued(left.table, left.gameStore, Tail(userIds), lockHeld)

\* The seats of the next round: the table's seats in table order, the bots
\* dropped when the humans alone reach minPlayers.
NextGamePlayers(tbl) ==
  LET humans == SelectSeq(tbl.players, LAMBDA p : ~p.isAI)
      ais == SelectSeq(tbl.players, LAMBDA p : p.isAI)
  IN IF Len(humans) >= tbl.minPlayers /\ Len(ais) > 0 THEN humans ELSE tbl.players

\* The callback of the timer of handleRoundTransition.  `order` is the
\* outcome of the shuffle of the new round, `queued` the order in which the
\* leaving set is read.  The dealerIndex computed for the new round is
\* passed to initializeGame as a third argument, which initializeGame does
\* not have.  An error thrown by initializeGame is caught and logged: no
\* state is stored then, and what was written before it stays.
RoundTransition(order, queued) ==
  /\ nEvents < MaxEvents
  /\ timers > 0
  /\ LET left == LeaveQueued(table, gameStore, queued, lock.held)
         tbl == left.table
         nextGamePlayers == NextGamePlayers(tbl)
         seated == [tbl EXCEPT !.players = nextGamePlayers,
                               !.currentPlayerCount =
                                  IF nextGamePlayers = tbl.players
                                  THEN tbl.currentPlayerCount
                                  ELSE Len(nextGamePlayers)]
         res == initializeGame(seated.stake, nextGamePlayers, order, db)
     IN IF tbl.currentPlayerCount < tbl.minPlayers \/ Len(tbl.players) = 0
        THEN /\ table' = [tbl EXCEPT !.status = "waiting"]
             /\ gameStore' = left.gameStore
             /\ lastEvent' = [NoEvent EXCEPT !.type = "transition"]
             /\ UNCHANGED <<db, botTicks, pickedUp, hitTurn>>
        ELSE /\ table' = seated
             /\ db' = res.db
             /\ IF res.ok
                THEN /\ gameStore' = <<res.gs>>
                     /\ botTicks' = TicksAfter(<<res.gs>>)
                     /\ pickedUp' = [u \in UserIds |-> {}]
                     /\ hitTurn' = [u \in UserIds |-> 0]
                     /\ lastEvent' = [NoEvent EXCEPT !.type = "newRound"]
                ELSE /\ gameStore' = left.gameStore
                     /\ lastEvent' = [NoEvent EXCEPT !.type = "transition",
                                                     !.error = res.error]
                     /\ UNCHANGED <<botTicks, pickedUp, hitTurn>>
  /\ leaving' = {}
  /\ timers' = timers - 1
  /\ nEvents' = nEvents + 1
  /\ UNCHANGED <<socketTable, lock, leavePc, inflight>>

NextTransition ==
  \/ \E u \in Humans : Drop(u)
  \/ \E u \in Humans : RequestLeaveTable(u)
  \/ \E seed \in 1..NumShuffles, queued \in Orders(leaving) :
        RoundTransition(ShuffleOrder(seed), queued)
  \/ \E u \in Humans, seed \in 1..NumShuffles : JoinTable(u, ShuffleOrder(seed))
  \/ \E u \in Humans : LeaveAcquire(u)
  \/ \E u \in Humans : LeaveBody(u)
  \/ \E u \in Humans : LeaveRelease(u)

SpecTransition == Init /\ [][NextTransition]_vars

(***************************************************************************)
(* The bot.  handleAITurn starts a tick of one second for the bot that is  *)
(* the current player; the tick reloads the state, asks getAIPlayerAction  *)
(* for the bot's action and applies it.                                    *)
(***************************************************************************)
\* findPossibleSpreads: the index triples i < j < k of the hand that
\* isValidSpread accepts.
findPossibleSpreads(hand) ==
  {t \in (1..Len(hand)) \X (1..Len(hand)) \X (1..Len(hand)) :
     /\ t[1] < t[2]
     /\ t[2] < t[3]
     /\ isValidSpread(<<hand[t[1]], hand[t[2]], hand[t[3]]>>)}

\* The triple the loops of findPossibleSpreads push first.
FirstTriple(triples) ==
  CHOOSE t \in triples :
    \A u \in triples :
       \/ t = u
       \/ t[1] < u[1]
       \/ t[1] = u[1] /\ t[2] < u[2]
       \/ t[1] = u[1] /\ t[2] = u[2] /\ t[3] < u[3]

\* hand.filter(card => !spread.includes(card)) for the spread at indexes t.
HandWithout(hand, t) ==
  LET keep == {i \in 1..Len(hand) : i \notin {t[1], t[2], t[3]}}
      pos(k) == CHOOSE i \in keep : Cardinality({j \in keep : j < i}) = k - 1
  IN [k \in 1..Cardinality(keep) |-> hand[pos(k)]]

\* getAIPlayerAction.  The card of a discard is hand[random]: `random` is
\* the outcome of Math.random, an index of the hand.
getAIPlayerAction(gs, aiPlayerId, random) ==
  LET i == PlayerIndex(gs.players, aiPlayerId)
      aiPlayer == gs.players[i + 1]
      aiHand == aiPlayer.hand
      possibleSpreads == findPossibleSpreads(aiHand)
      reems == {t \in possibleSpreads :
                  findPossibleSpreads(HandWithout(aiHand, t)) # {}}
      cardsOf(t) == <<aiHand[t[1]], aiHand[t[2]], aiHand[t[3]]>>
      none == [type |-> "none", cards |-> <<>>]
  IN IF i = -1 \/ gs.players[gs.currentPlayerIndex + 1].userId # aiPlayerId
     THEN none
     ELSE IF reems # {}
     THEN [type |-> "spread", cards |-> cardsOf(FirstTriple(reems))]
     ELSE IF possibleSpreads # {}
     THEN [type |-> "spread", cards |-> cardsOf(FirstTriple(possibleSpreads))]
     ELSE IF /\ ~aiPlayer.isHitLocked
             /\ ~aiPlayer.hasTakenActionThisTurn
             /\ calculateHandValue(aiHand) <= 5
     THEN [type |-> "drop", cards |-> <<>>]
     ELSE IF ~aiPlayer.hasTakenActionThisTurn
     THEN [type |-> "draw", cards |-> <<>>]
     ELSE IF Len(aiHand) > 0
     THEN [type |-> "discard", cards |-> <<aiHand[random]>>]
     ELSE none

\* The engine call of a tick for the action getAIPlayerAction chose.
ApplyAIAction(aiAction, gs, d, botId) ==
  IF aiAction.type = "draw" THEN playerDrawCard(gs, d, botId, "deck")
  ELSE IF aiAction.type = "discard"
  THEN playerDiscardCard(gs, d, botId, aiAction.cards[1])
  ELSE IF aiAction.type = "spread"
  THEN playerSpreadCards(gs, d, botId, aiAction.cards)
  ELSE playerDrop(gs, d, botId)

\* What a tick of handleAITurn does with the result `res` of its engine
\* call on the state `gs` it reloaded: an error is caught and logged; after
\* an accepted discard in a round that goes on, nextTurn is applied.
\*   acted   the engine call returned and its state was saved
\*   timer   handleRoundTransition was called
\*   again   handleAITurn was called
AITurnOutcome(aiAction, res, gs, d) ==
  LET idle == [acted |-> FALSE, gs |-> gs, db |-> d, timer |-> FALSE, again |-> FALSE]
  IN IF aiAction.type = "none" THEN idle
     ELSE IF ~res.ok THEN [idle EXCEPT !.db = res.db]
     ELSE IF aiAction.type = "drop" \/ res.gs.status = "round-end"
     THEN [acted |-> TRUE, gs |-> res.gs, db |-> res.db, timer |-> TRUE, again |-> FALSE]
     ELSE IF aiAction.type = "discard"
     THEN [acted |-> TRUE, gs |-> nextTurn(res.gs), db |-> res.db, timer |-> FALSE,
           again |-> TRUE]
     ELSE [acted |-> TRUE, gs |-> res.gs, db |-> res.db, timer |-> FALSE, again |-> TRUE]

AITurn(gs, d, botId, random) ==
  AITurnOutcome(getAIPlayerAction(gs, botId, random),
                ApplyAIAction(getAIPlayerAction(gs, botId, random), gs, d, botId),
                gs, d)

\* The tick saves the state `turn` stands for and starts what it asks for.
SaveAITurn(botId, turn) ==
  /\ gameStore' = <<turn.gs>>
  /\ db' = turn.db
  /\ timers' = IF turn.timer THEN timers + 1 ELSE timers
  /\ botTicks' =
       IF /\ turn.again
          /\ turn.gs.currentPlayerIndex \in 0..(Len(turn.gs.players) - 1)
          /\ turn.gs.players[turn.gs.currentPlayerIndex + 1].isAI
       THEN [botTicks EXCEPT
               ![botId] = @ - 1,
               ![turn.gs.players[turn.gs.currentPlayerIndex + 1].userId] = @ + 1]
       ELSE [botTicks EXCEPT ![botId] = @ - 1]

\* The callback of the timer of handleAITurn for the bot it captured.  It
\* returns when no state is stored or when the current player has another
\* userId; reading the userId of a current player that does not exist
\* (currentPlayerIndex -1 or beyond the seats) throws and ends it as well.
BotTick(botId, random) ==
  /\ nEvents < MaxEvents
  /\ botTicks[botId] > 0
  /\ IF /\ HasGame
        /\ GS.currentPlayerIndex \in 0..(Len(GS.players) - 1)
        /\ GS.players[GS.currentPlayerIndex + 1].userId = botId
     THEN /\ random \in 1..Len(GS.players[GS.currentPlayerIndex + 1].hand) \/ random = 1
          /\ SaveAITurn(botId, AITurn(GS, db, botId, random))
     ELSE /\ random = 1
          /\ botTicks' = [botTicks EXCEPT ![botId] = @ - 1]
          /\ UNCHANGED <<gameStore, db, timers>>
  /\ lastEvent' = [NoEvent EXCEPT !.type = "botTick", !.userId = botId]
  /\ nEvents' = nEvents + 1
  /\ UNCHANGED <<table, socketTable, leaving, pickedUp, hitTurn, lock, leavePc, inflight>>

\* The seats of the rounds with the bot: the human who joined an empty table
\* and the bot created for it; the bot and the second human, left at the
\* table of h1, b1 and h2 when h1 has gone.
BotSeats == { <<"h1", "b1">>, <<"b1", "h2">> }

\* The deals of these rounds: those of SampleDeals that give one seat the
\* hand of the 5s and two 6s.
BotDeals ==
  {hands \in SampleDeals(2) :
     \E i \in 1..2 : hands[i] = <<5, 15, 25, 6, 16>>}

\* A round of the bot and a human just started (by joinTable, or by the
\* round transition) and saved, handleAITurn called for it.
InitBot ==
  \E seats \in BotSeats, hands \in BotDeals :
    LET started == initializeGame(TableStake,
                                  [i \in 1..Len(seats) |-> Seat(seats[i])],
                                  StackedOrder(hands), InitialDb)
    IN /\ started.ok
       /\ table = [players |-> [i \in 1..Len(seats) |-> Seat(seats[i])],
                   currentPlayerCount |-> Len(seats),
                   status |-> "in-game", stake |-> TableStake,
                   minPlayers |-> MinPlayers, maxPlayers |-> MaxPlayers]
       /\ gameStore = <<started.gs>>
       /\ db = started.db
       /\ socketTable = [u \in Humans |-> \E i \in 1..Len(seats) : seats[i] = u]
       /\ leaving = {}
       /\ lastEvent = NoEvent
       /\ pickedUp = [u \in UserIds |-> {}]
       /\ hitTurn = [u \in UserIds |-> 0]
       /\ nEvents = 0
       /\ lock = LockFree
       /\ leavePc = [u \in Humans |-> "idle"]
       /\ timers = 0
       /\ botTicks = [b \in Bots |->
                        IF /\ started.gs.currentPlayerIndex = 0
                           /\ seats[1] = b
                        THEN 1 ELSE 0]
       /\ inflight = [u \in Humans |-> NotLoaded]

NextBot ==
  \/ \E b \in Bots, random \in 1..(CardsPerPlayer + 1) : BotTick(b, random)
  \/ \E u \in Humans, source \in {"deck", "discard"} : DrawCard(u, source)
  \/ \E u \in Humans, card \in ClientCards : DiscardCard(u, card)
  \/ \E u \in Humans, cards \in RoundSpreads : Spread(u, cards)
  \/ \E u \in Humans : Drop(u)
  \/ \E u \in Humans, seed \in 1..NumShuffles : JoinTable(u, ShuffleOrder(seed))

SpecBot == InitBot /\ [][NextBot]_vars

(***************************************************************************)
(* The handlers of drawCard and discardCard step by step, for events of    *)
(* one table that are handled at once: a handler awaits loadGameState,     *)
(* then calls the engine on what it loaded and saves the result.  Other    *)
(* handlers run between the two.                                           *)
(***************************************************************************)
\* drawCard / discardCard up to the return of loadGameState.  `arg` is the
\* source of a draw, the card of a discard.
LoadForEvent(userId, kind, arg) ==
  /\ nEvents < MaxLoads
  /\ inflight[userId].kind = "none"
  /\ HasGame
  /\ inflight' = [inflight EXCEPT
                    ![userId] = [kind |-> kind, store |-> gameStore, table |-> <<>>,
                                 arg |-> <<arg>>]]
  /\ nEvents' = nEvents + 1
  /\ UNCHANGED <<table, gameStore, db, socketTable, leaving, lastEvent, pickedUp,
                 hitTurn, lock, leavePc, timers, botTicks>>

\* What the rest of a handler stores for the engine result `res`: nothing
\* when the engine threw (gameError goes to the sender); else the state,
\* after an accepted discard in a round that goes on the state of nextTurn.
SaveEvent(userId, kind, res) ==
  /\ IF res.ok
     THEN /\ gameStore' =
               <<IF kind = "discardCard" /\ res.gs.status # "round-end"
                 THEN nextTurn(res.gs) ELSE res.gs>>
          /\ timers' = TimersAfter(res.gs)
          /\ botTicks' =
               IF kind = "discardCard" /\ res.gs.status # "round-end"
               THEN TicksAfter(<<nextTurn(res.gs)>>) ELSE botTicks
     ELSE UNCHANGED <<gameStore, timers, botTicks>>
  /\ db' = res.db
  /\ lastEvent' = [NoEvent EXCEPT
                    !.type = kind, !.userId = userId, !.error = res.error,
                    !.updates = IF ~res.ok THEN 0
                                ELSE IF kind = "discardCard" /\ res.gs.status # "round-end"
                                     THEN 2 ELSE 1,
                    !.errorTo = IF res.ok THEN "" ELSE userId]

\* drawCard from the return of loadGameState on.
SaveDraw(userId) ==
  /\ inflight[userId].kind = "drawCard"
  /\ SaveEvent(userId, "drawCard",
               playerDrawCard(inflight[userId].store[1], db, userId,
                              inflight[userId].arg[1]))
  /\ inflight' = [inflight EXCEPT ![userId] = NotLoaded]
  /\ UNCHANGED <<table, socketTable, leaving, pickedUp, hitTurn, nEvents, lock, leavePc>>

\* discardCard from the return of loadGameState on.
SaveDiscard(userId) ==
  /\ inflight[userId].kind = "discardCard"
  /\ SaveEvent(userId, "discardCard",
               playerDiscardCard(inflight[userId].store[1], db, userId,
                                 inflight[userId].arg[1]))
  /\ inflight' = [inflight EXCEPT ![userId] = NotLoaded]
  /\ UNCHANGED <<table, socketTable, leaving, pickedUp, hitTurn, nEvents, lock, leavePc>>

NextRace ==
  \/ \E u \in Humans, source \in {"deck", "discard"} : LoadForEvent(u, "drawCard", source)
  \/ \E u \in Humans, card \in ClientCards : LoadForEvent(u, "discardCard", card)
  \/ \E u \in Humans : SaveDraw(u)
  \/ \E u \in Humans : SaveDiscard(u)
  \/ \E b \in Bots, random \in 1..(CardsPerPlayer + 1) : BotTick(b, random)
  \/ \E u \in Humans : Disconnect(u)

SpecRace == Init /\ [][NextRace]_vars

(***************************************************************************)
(* joinTable step by step, for joins of one table that are handled at      *)
(* once: the handler awaits Table.findById, then works on its copy of the  *)
(* document and saves it.                                                  *)
(***************************************************************************)
\* The users that join the table of this specification.
Joiners == {"h1", "h2", "h3", "h4"}

\* A seeded table, nobody seated; every user has the balance joinTable asks
\* for.
InitJoin ==
  /\ table = [players |-> <<>>, currentPlayerCount |-> 0, status |-> "waiting",
              stake |-> TableStake, minPlayers |-> MinPlayers,
              maxPlayers |-> MaxPlayers]
  /\ gameStore = <<>>
  /\ db = [wallets |-> [u \in Joiners |->
                          [availableBalance |-> JoinBalanceFactor * TableStake,
                           matchEarningsHistory |-> <<>>]],
           matches |-> <<>>, transactions |-> <<>>]
  /\ socketTable = [u \in Joiners |-> FALSE]
  /\ leaving = {}
  /\ lastEvent = NoEvent
  /\ pickedUp = [u \in Joiners \cup Bots |-> {}]
  /\ hitTurn = [u \in Joiners \cup Bots |-> 0]
  /\ nEvents = 0
  /\ lock = LockFree
  /\ leavePc = [u \in Joiners |-> "idle"]
  /\ timers = 0
  /\ botTicks = NoTicks
  /\ inflight = [u \in Joiners |-> NotLoaded]

\* joinTable up to the return of Table.findById.
JoinLoad(userId) ==
  /\ nEvents < MaxEvents
  /\ inflight[userId].kind = "none"
  /\ inflight' = [inflight EXCEPT
                    ![userId] = [kind |-> "joinTable", store |-> <<>>,
                                 table |-> <<table>>, arg |-> <<>>]]
  /\ nEvents' = nEvents + 1
  /\ UNCHANGED <<table, gameStore, db, socketTable, leaving, lastEvent, pickedUp,
                 hitTurn, lock, leavePc, timers, botTicks>>

\* What the rest of joinTable stores for the outcome `res` of the handler.
SaveJoin(userId, res) ==
  /\ table' = SaveTable(table, res)
  /\ gameStore' = res.store
  /\ db' = res.db
  /\ socketTable' = [socketTable EXCEPT ![userId] = @ \/ res.joined]
  /\ botTicks' = TicksAfter(res.ticks)
  /\ lastEvent' = [NoEvent EXCEPT !.type = "join", !.userId = userId,
                                  !.error = res.error]

\* joinTable from the return of Table.findById on.
JoinSave(userId, order) ==
  /\ inflight[userId].kind = "joinTable"
  /\ BotAvailable(inflight[userId].table[1])
  /\ SaveJoin(userId, joinTable(inflight[userId].table[1], gameStore, db, userId, order))
  /\ inflight' = [inflight EXCEPT ![userId] = NotLoaded]
  /\ UNCHANGED <<leaving, pickedUp, hitTurn, nEvents, lock, leavePc, timers>>

NextJoin ==
  \/ \E u \in Joiners : JoinLoad(u)
  \/ \E u \in Joiners, seed \in 1..NumShuffles : JoinSave(u, ShuffleOrder(seed))
  \/ \E u \in Joiners : Disconnect(u)

SpecJoin == InitJoin /\ [][NextJoin]_vars

(***************************************************************************)
(* Properties.                                                             *)
(*                                                                         *)
(* lastEvent holds accepted events only: a rejected event stores nothing,  *)
(* so "X is rejected and changes nothing when G fails" is the same as      *)
(* "every accepted X found G true".                                        *)
(***************************************************************************)
RECURSIVE Flatten(_)
Flatten(seqs) == IF seqs = <<>> THEN <<>> ELSE Head(seqs) \o Flatten(Tail(seqs))

\* Every card of a game state, location by location: the deck, the discard
\* pile, each hand, each spread.
AllCards(gs) ==
  gs.deck \o gs.discardPile
    \o Flatten([i \in 1..Len(gs.players) |-> gs.players[i].hand])
    \o Flatten([i \in 1..Len(gs.players) |-> Flatten(gs.players[i].spreads)])

\* No client has left the table since the round started.
NoLeave == \A u \in Humans : socketTable[u]

RECURSIVE SumOver(_, _)
SumOver(f, S) ==
  IF S = {} THEN 0
  ELSE LET x == CHOOSE y \in S : TRUE IN f[x] + SumOver(f, S \ {x})

GameActions == {"drawCard", "discardCard", "spread", "hit", "drop"}

\* C1. Card conservation: in every game state reached from initializeGame by
\* draws, discards, spreads, hits (a hit on the hitter's own spread
\* included), drops and turn changes, the deck, the discard pile, the hands
\* and the spreads hold 40 cards together.
CardConservation ==
  (HasGame /\ NoLeave) => Len(AllCards(GS)) = 40

\* C2. No duplicate cards: no card (suit and rank) is twice in the deck, the
\* discard pile, the hands and the spreads of a reachable game state, be it
\* in two locations or twice in one.
NoDuplicateCards ==
  HasGame =>
    LET all == AllCards(GS)
    IN \A i \in 1..Len(all), j \in 1..Len(all) :
          i # j => ~SameCard(all[i], all[j])

\* C3. The pot is the sum of the locked antes in every reachable game state:
\* the ante collection for n players (humans and bots) leaves pot = n *
\* baseStake and one entry of baseStake per userId, and no later action or
\* leave changes that.
PotEqualsLockedAntes ==
  HasGame =>
    /\ GS.pot = SumOver(GS.lockedAntes, DOMAIN GS.lockedAntes)
    /\ GS.pot = Cardinality(DOMAIN GS.lockedAntes) * GS.baseStake
    /\ \A u \in DOMAIN GS.lockedAntes : GS.lockedAntes[u] = GS.baseStake
    /\ \A i \in 1..Len(GS.players) : GS.players[i].userId \in DOMAIN GS.lockedAntes
    /\ nEvents = 0 =>
         /\ GS.pot = Len(GS.players) * GS.baseStake
         /\ DOMAIN GS.lockedAntes = {GS.players[i].userId : i \in 1..Len(GS.players)}

\* C3 happens: a human left a round whose antes a bot shares, and the game
\* state that remains has fewer players than locked antes.
PotAfterLeaveOfBotRound ==
  /\ HasGame
  /\ lastEvent.type = "leave"
  /\ \E b \in Bots : b \in DOMAIN GS.lockedAntes
  /\ Len(GS.players) < Cardinality(DOMAIN GS.lockedAntes)
  /\ GS.pot = 2 * TableStake

\* C4. While the round has not ended the turn index names a player:
\* 0 <= currentPlayerIndex < |players| after every event, a leave that takes
\* a player out of the game state included.
CurrentPlayerIndexInRange ==
  (HasGame /\ GS.status # "round-end") =>
    (0 <= GS.currentPlayerIndex /\ GS.currentPlayerIndex < Len(GS.players))

\* C5. For every player of every reachable game state, isHitLocked is true
\* exactly when hitLockCounter > 0.
HitLockFlagMatchesCounter ==
  HasGame =>
    \A i \in 1..Len(GS.players) :
       GS.players[i].isHitLocked <=> GS.players[i].hitLockCounter > 0

\* C6. A draw, discard, spread, hit or drop of a seated player who is not
\* the player at currentPlayerIndex is rejected and changes nothing: every
\* accepted game action was sent by the current player.
OnlyCurrentPlayerActs ==
  lastEvent.type \in GameActions => lastEvent.wasTurn

\* C7. In a turn the current player draws first and once: a draw is rejected
\* when hasTakenActionThisTurn is true already, and a spread, a hit or a
\* discard is rejected while it is false.
DrawFirstAndOnce ==
  lastEvent.wasTurn =>
    /\ lastEvent.type = "drawCard" => ~lastEvent.hadActed
    /\ lastEvent.type \in {"spread", "hit", "discardCard"} => lastEvent.hadActed

\* C8. A card a player drew from the discard pile is not discarded by that
\* player before the next turn change, whatever the player does in between:
\* no accepted discard of the current player names a card that player
\* picked up in this turn.
PickedUpCardNotDiscarded ==
  (lastEvent.type = "discardCard" /\ lastEvent.wasTurn) => ~lastEvent.pickedUpCard

\* C9. A drop is accepted only from the current player who has taken no
\* action this turn and is not hit-locked, and then the round has ended with
\* roundEndedBy = REGULAR and roundWinnerId = the dropper; a drop that fails
\* one of the three guards is rejected and leaves game state and wallets as
\* they were.
DropGuards ==
  /\ lastEvent.type = "drop" =>
       /\ lastEvent.wasTurn /\ ~lastEvent.hadActed /\ ~lastEvent.wasLocked
       /\ HasGame
       /\ GS.status = "round-end"
       /\ GS.roundEndedBy = "REGULAR"
       /\ GS.roundWinnerId = lastEvent.userId
  /\ HasGame =>
       \A u \in UserIds :
          LET i == PlayerIndex(GS.players, u)
              res == playerDrop(GS, db, u)
          IN (\/ i = -1
              \/ GS.currentPlayerIndex # i
              \/ GS.players[i + 1].hasTakenActionThisTurn
              \/ GS.players[i + 1].isHitLocked)
               => (~res.ok /\ res.gs = GS /\ res.db = db)

\* C9 happens: a drop was accepted while another player of the round was
\* hit-locked (that player's own drop is one of those rejected).
DropAcceptedBesideLockedPlayer ==
  /\ HasGame
  /\ lastEvent.type = "drop"
  /\ GS.roundWinnerId = lastEvent.userId
  /\ \E i \in 1..Len(GS.players) :
        GS.players[i].isHitLocked /\ ~playerDrop(GS, db, GS.players[i].userId).ok

\* C10. Hit-lock duration: when a spread of a player who was not locked is
\* hit in turn T and no further hit lands on that player, the player's drop
\* is rejected in turns T+1 and T+2, and from turn T+3 on it is not rejected
\* for the hit-lock.
HitLockDuration ==
  HasGame =>
    \A i \in 1..Len(GS.players) :
       LET p == GS.players[i]
           T == hitTurn[p.userId]
           res == playerDrop(GS, db, p.userId)
       IN T > 0 =>
            /\ GS.turn \in {T + 1, T + 2} => (p.isHitLocked /\ ~res.ok)
            /\ GS.turn >= T + 3 =>
                 (~p.isHitLocked /\ res.error # "cannot drop while hit-locked")

\* C10 happens: in turn T+3 after a hit in turn T the player hit is the
\* current player and that player's drop is accepted.
DropAcceptedThreeTurnsAfterHit ==
  /\ HasGame
  /\ \E i \in 1..Len(GS.players) :
        /\ hitTurn[GS.players[i].userId] > 0
        /\ GS.turn = hitTurn[GS.players[i].userId] + 3
        /\ GS.currentPlayerIndex = i - 1
        /\ playerDrop(GS, db, GS.players[i].userId).ok

(***************************************************************************)
(* Settlement of a round.                                                  *)
(***************************************************************************)
\* C19. Each round is settled at most once: once the stored round has
\* status round-end and its settlement has committed (its Match document is
\* saved), no further event on the table changes a wallet before the next
\* round is initialised.
RoundSettledAtMostOnce ==
  [][(HasGame /\ GS.status = "round-end" /\ Len(db.matches) >= 1)
       => db'.wallets = db.wallets]_vars

\* C11. A Draw from the deck attempted with the deck empty ends the round:
\* the stored state gets status round-end, roundEndedBy DECK_EMPTY and
\* roundWinnerId the player with the lowest hand value (the earliest seat on
\* a tie), and the settlement commits: the winner is credited the pot and a
\* Match document is saved.
DeckEmptyDrawEndsRound ==
  (HasGame /\ GS.deck = <<>>) =>
    \A i \in 1..Len(GS.players) :
       LET res == playerDrawCard(GS, db, GS.players[i].userId, "deck")
           lowest == CHOOSE k \in 1..Len(GS.players) :
                       \A j \in 1..Len(GS.players) :
                          \/ calculateHandValue(GS.players[k].hand)
                               < calculateHandValue(GS.players[j].hand)
                          \/ /\ calculateHandValue(GS.players[k].hand)
                                  = calculateHandValue(GS.players[j].hand)
                             /\ k <= j
           w == GS.players[lowest].userId
       IN /\ res.ok
          /\ res.gs.status = "round-end"
          /\ res.gs.roundEndedBy = "DECK_EMPTY"
          /\ res.gs.roundWinnerId = w
          /\ Len(res.db.matches) = Len(db.matches) + 1
          /\ w \in DOMAIN db.wallets =>
               res.db.wallets[w].availableBalance
                 = db.wallets[w].availableBalance + GS.pot

\* C12. An accepted Spread ends the round with roundEndedBy REEM and
\* roundWinnerId the spreading player exactly when, after the spread, that
\* player has exactly two spreads and no card in hand; any other accepted
\* Spread leaves status, currentPlayerIndex and turn as they were.
SpreadEndsRoundExactlyOnReem ==
  [][(lastEvent'.type = "spread" /\ nEvents' = nEvents + 1) =>
       LET u == lastEvent'.userId
           after == gameStore'[1]
           p == after.players[PlayerIndex(after.players, u) + 1]
       IN IF Len(p.spreads) = 2 /\ Len(p.hand) = 0
          THEN /\ after.status = "round-end"
               /\ after.roundEndedBy = "REEM"
               /\ after.roundWinnerId = u
          ELSE /\ after.status = GS.status
               /\ after.roundEndedBy = GS.roundEndedBy
               /\ after.roundWinnerId = GS.roundWinnerId
               /\ after.currentPlayerIndex = GS.currentPlayerIndex
               /\ after.turn = GS.turn]_vars

\* C12 happens: the spread just accepted was the sender's second, emptied
\* the hand and ended a round that was running, with a REEM match saved.
ReemBySecondSpread ==
  /\ HasGame
  /\ lastEvent.type = "spread"
  /\ GS.status = "round-end"
  /\ GS.roundEndedBy = "REEM"
  /\ GS.roundWinnerId = lastEvent.userId
  /\ LET p == GS.players[PlayerIndex(GS.players, lastEvent.userId) + 1]
     IN Len(p.spreads) = 2 /\ Len(p.hand) = 0
  /\ Len(db.matches) = 1
  /\ db.matches[1].winType = "REEM"

\* The seats of the stored round whose hand has one of the values in `values`
\* or a value of at most `low`.
SeatsWithHand(values, low) ==
  {i \in 1..Len(GS.players) :
     \/ calculateHandValue(GS.players[i].hand) \in values
     \/ calculateHandValue(GS.players[i].hand) <= low}

\* C13. Automatic-win detection on the dealt hands: if a player's hand value
\* is 41 or at most 11 the round ends at once with AUTO_TRIPLE for the first
\* such player in seat order, also when an earlier seat holds 50 or 47;
\* otherwise if a player's hand value is 50 or 47 it ends with a REGULAR
\* automatic win of such a player; otherwise the round starts with no winner.
AutomaticWinDetection ==
  (HasGame /\ lastEvent.type = "startRound") =>
     LET triples == SeatsWithHand({41}, 11)
         regulars == SeatsWithHand({50, 47}, -1)
     IN IF triples # {}
        THEN /\ GS.status = "round-end"
             /\ GS.roundEndedBy = "AUTO_TRIPLE"
             /\ GS.roundWinnerId
                  = GS.players[CHOOSE i \in triples : \A j \in triples : i <= j].userId
        ELSE IF regulars # {}
        THEN /\ GS.status = "round-end"
             /\ GS.roundEndedBy = "REGULAR"
             /\ \E i \in regulars : GS.roundWinnerId = GS.players[i].userId
        ELSE /\ GS.status = "starting"
             /\ GS.roundEndedBy = "null"
             /\ GS.roundWinnerId = ""

\* C13 happens: the round just dealt gave 50 or 47 to a seat and 41 or at
\* most 11 to a later seat, and ended with AUTO_TRIPLE for the later seat.
AutoTripleAfterRegularSeat ==
  /\ HasGame
  /\ lastEvent.type = "startRound"
  /\ GS.roundEndedBy = "AUTO_TRIPLE"
  /\ \E i \in SeatsWithHand({50, 47}, -1), j \in SeatsWithHand({41}, 11) :
        i < j /\ GS.roundWinnerId = GS.players[j].userId

\* The auto-triple scenario as one step: a round is started at a table of
\* stake 10 whose seats are the humans A and B, each with a wallet of 100,
\* and one bot; A is dealt a hand of value 11 and no seat before A's holds
\* 41 or at most 11.  Then the round has ended with AUTO_TRIPLE and winner
\* A, and after the antes and the settlement A's balance is `balanceOfA`
\* and B's is 60.
AutoTripleScenarioStep(balanceOfA) ==
  \A A \in Humans : \A B \in Humans \ {A} :
     LET dealt == gameStore'[1]
         seatOfA == PlayerIndex(dealt.players, A) + 1
     IN (/\ lastEvent'.type = "startRound"
         /\ nEvents' = nEvents + 1
         /\ gameStore' # <<>>
         /\ table.stake = 10
         /\ Len(table.players) = 3
         /\ {table.players[i].userId : i \in {j \in 1..3 : ~table.players[j].isAI}}
              = {A, B}
         /\ db.wallets[A].availableBalance = 100
         /\ db.wallets[B].availableBalance = 100
         /\ calculateHandValue(dealt.players[seatOfA].hand) = 11
         /\ \A i \in 1..(seatOfA - 1) :
               /\ calculateHandValue(dealt.players[i].hand) # 41
               /\ calculateHandValue(dealt.players[i].hand) > 11)
        => /\ dealt.status = "round-end"
           /\ dealt.roundEndedBy = "AUTO_TRIPLE"
           /\ dealt.roundWinnerId = A
           /\ db'.wallets[A].availableBalance = balanceOfA
           /\ db'.wallets[B].availableBalance = 60

\* C14 as the spec states it. Auto-triple scenario: stake 10, humans A and B
\* with 100 each and one bot, A dealt 11: the round ends with AUTO_TRIPLE
\* and winner A, and A's balance is 160 and B's is 60.
AutoTripleScenario160 == [][AutoTripleScenarioStep(160)]_vars

\* C14, amended. The same scenario ends with AUTO_TRIPLE and winner A, A's
\* balance is 100 - 10 + (30 + 30 * 2) = 180 (the pot holds the three antes)
\* and B's balance is 60.
AutoTripleScenario180 == [][AutoTripleScenarioStep(180)]_vars

\* C14 happens: a round of two humans and a bot at stake 10 was just dealt,
\* a human with a hand of 11 won it by AUTO_TRIPLE and the wallets stand at
\* 180 and 60.
AutoTripleScenarioSettled ==
  /\ HasGame
  /\ lastEvent.type = "startRound"
  /\ Len(GS.players) = 3
  /\ GS.baseStake = 10
  /\ GS.roundEndedBy = "AUTO_TRIPLE"
  /\ \E A \in Humans : \E B \in Humans \ {A} :
        /\ GS.roundWinnerId = A
        /\ calculateHandValue(GS.players[PlayerIndex(GS.players, A) + 1].hand) = 11
        /\ db.wallets[A].availableBalance = 180
        /\ db.wallets[B].availableBalance = 60
        /\ db.wallets[A].matchEarningsHistory = <<90>>
        /\ db.wallets[B].matchEarningsHistory = <<-30>>

\* The payout table of the spec for the stored round-end state: the
\* winner's payout and the set of penalties.
TablePayout ==
  LET losers == {GS.players[i].userId : i \in 1..Len(GS.players)} \ {GS.roundWinnerId}
      each(amount) == {[playerId |-> u, amount |-> amount] : u \in losers}
  IN CASE GS.roundEndedBy \in {"REGULAR", "DECK_EMPTY"} ->
            [winnerPayout |-> GS.pot, penalties |-> {}]
       [] GS.roundEndedBy = "REEM" ->
            [winnerPayout |-> GS.pot + GS.baseStake * Cardinality(losers),
             penalties |-> each(GS.baseStake)]
       [] GS.roundEndedBy = "AUTO_TRIPLE" ->
            [winnerPayout |-> GS.pot + 3 * GS.baseStake * Cardinality(losers),
             penalties |-> each(3 * GS.baseStake)]
       [] GS.roundEndedBy = "CAUGHT_DROP" ->
            [winnerPayout |-> GS.pot + GS.baseStake,
             penalties |-> {[playerId |-> GS.caughtDroppingPlayerId,
                             amount |-> GS.baseStake]}]

SamePayout(payoutData, expected) ==
  /\ payoutData.winnerPayout = expected.winnerPayout
  /\ {payoutData.penalties[i] : i \in 1..Len(payoutData.penalties)} = expected.penalties
  /\ Len(payoutData.penalties) = Cardinality(expected.penalties)

\* C15. For every round-end state with a winner (and, when the round ended
\* by CAUGHT_DROP, with its caught dropper), calculatePayouts gives the
\* payout of the table: REGULAR and DECK_EMPTY the pot and no penalty; REEM
\* pot + baseStake * |losers| and baseStake from each loser; AUTO_TRIPLE
\* pot + 3 * baseStake * |losers| and 3 * baseStake from each loser;
\* CAUGHT_DROP pot + baseStake and baseStake from the caught dropper only.
\* The Match a settlement commits records these amounts.
PayoutsFollowTable ==
  (/\ HasGame
   /\ GS.status = "round-end"
   /\ GS.roundWinnerId # ""
   /\ GS.roundEndedBy = "CAUGHT_DROP" => GS.caughtDroppingPlayerId # "")
  => /\ SamePayout(calculatePayouts(GS), TablePayout)
     /\ (lastEvent.type = "roundEnd" /\ lastEvent.error = "")
          => /\ Len(db.matches) = 1
             /\ SamePayout(db.matches[1], TablePayout)

\* C15 happens: a round that ended by CAUGHT_DROP was settled, winner paid
\* pot + baseStake, the caught dropper alone charged baseStake.
CaughtDropSettled ==
  /\ HasGame
  /\ lastEvent.type = "roundEnd"
  /\ lastEvent.error = ""
  /\ GS.roundEndedBy = "CAUGHT_DROP"
  /\ Len(GS.players) = 3
  /\ Len(db.matches) = 1
  /\ db.matches[1].winnerPayout = GS.pot + GS.baseStake
  /\ db.matches[1].penalties
       = <<[playerId |-> GS.caughtDroppingPlayerId, amount |-> GS.baseStake]>>

\* C16. Settlement is all-or-nothing: when a step of the settlement fails
\* (the debit of a penalised player would leave that wallet below 0, or
\* the Match is not accepted), no wallet balance, earnings-history entry,
\* Transaction or Match of that settlement is committed, the winner's
\* credit applied earlier in the settlement included.
SettlementAllOrNothing ==
  [][(lastEvent'.type = "roundEnd" /\ lastEvent'.error # "")
       => (db' = db /\ gameStore' = gameStore)]_vars

\* C16 happens: the settlement of an AUTO_TRIPLE round won by a human failed
\* at the debit of a human loser who cannot pay 3 * baseStake, after the
\* winner's credit; the documents show none of it.
SettlementAbortedAfterCredit ==
  /\ HasGame
  /\ lastEvent.type = "roundEnd"
  /\ lastEvent.error # ""
  /\ GS.roundEndedBy = "AUTO_TRIPLE"
  /\ GS.roundWinnerId \in DOMAIN db.wallets
  /\ \E u \in DOMAIN db.wallets :
        /\ u # GS.roundWinnerId
        /\ PlayerIndex(GS.players, u) # -1
        /\ db.wallets[u].availableBalance < 3 * GS.baseStake
  /\ db.matches = <<>>
  /\ db.transactions = <<>>
  /\ \A u \in DOMAIN db.wallets : db.wallets[u].matchEarningsHistory = <<>>

\* The sum, over the wallets, of the wallet changes of the round up to its
\* settlement in this step: the change made by the step and, when the antes
\* were collected by an earlier step, the ante locked for the wallet's owner
\* then (lockedAntes).
RoundWalletChanges ==
  LET after == gameStore'[1]
      change == [u \in DOMAIN db.wallets |->
                   db'.wallets[u].availableBalance - db.wallets[u].availableBalance
                     - (IF gameStore # <<>> /\ u \in DOMAIN after.lockedAntes
                        THEN after.lockedAntes[u] ELSE 0)]
  IN SumOver(change, DOMAIN db.wallets)

\* A step that commits the settlement of a round ended by REEM, AUTO_TRIPLE
\* or CAUGHT_DROP.
PenaltySettlementStep ==
  /\ gameStore' # <<>>
  /\ Len(db'.matches) = Len(db.matches) + 1
  /\ db'.matches[Len(db'.matches)].winType \in {"REEM", "AUTO_TRIPLE", "CAUGHT_DROP"}

\* C17 as the spec states it. Settlement conservation: for a round that ends
\* by REEM, AUTO_TRIPLE or CAUGHT_DROP the sum over the seated human players
\* of their wallet changes for the round (ante debit, winner credit, penalty
\* debits) is 0.
HumanWalletChangesSumToZero ==
  [][PenaltySettlementStep => RoundWalletChanges = 0]_vars

\* C17, amended. The same sum is 0 when no bot was dealt into the round:
\* every ante of the pot was debited from a wallet.
HumanOnlyRoundChangesSumToZero ==
  [][(/\ PenaltySettlementStep
      /\ DOMAIN gameStore'[1].lockedAntes \subseteq DOMAIN db.wallets)
       => RoundWalletChanges = 0]_vars

\* C17 happens: a round of two humans at stake 10 ended by REEM and was
\* settled: antes 10 and 10, the winner credited 30, the loser debited 10.
HumanOnlyReemSettled ==
  /\ HasGame
  /\ lastEvent.type = "spread"
  /\ GS.roundEndedBy = "REEM"
  /\ Len(GS.players) = 2
  /\ \A i \in 1..2 : ~GS.players[i].isAI /\ GS.players[i].currentBuyIn = 10
  /\ Len(db.matches) = 1
  /\ \E w \in Humans : \E l \in Humans \ {w} :
        /\ GS.roundWinnerId = w
        /\ db.wallets[w].matchEarningsHistory = <<30>>
        /\ db.wallets[l].matchEarningsHistory = <<-10>>

\* C18. Ante collection fails the whole round setup when a human player's
\* availableBalance is below baseStake: initializeGame raises an error, no
\* game state is produced and no player's wallet has been debited for the
\* round.
AnteFailureDebitsNobody ==
  [][(/\ lastEvent'.type = "startRound"
      /\ nEvents' = nEvents + 1
      /\ \E i \in 1..Len(table.players) :
            /\ ~table.players[i].isAI
            /\ db.wallets[table.players[i].userId].availableBalance < table.stake)
       => /\ lastEvent'.error # ""
          /\ gameStore' = gameStore
          /\ db' = db]_vars

(***************************************************************************)
(* The per-table lock.                                                     *)
(***************************************************************************)
\* C20. Per-table mutual exclusion of Leave: at no time are two executions
\* of the critical section of handlePlayerLeave active for the table, also
\* when a holder runs longer than the 10 seconds the lock lives, the lock
\* expires, another actor takes it and the first holder then releases.
LeaveMutualExclusion ==
  Cardinality({u \in Humans : leavePc[u] = "critical"}) <= 1

(***************************************************************************)
(* Leave requests under lock contention.                                   *)
(***************************************************************************)
\* A call of handlePlayerLeave that has been entered runs on: each of its
\* awaits returns, and Redis counts the key's seconds down.  Nothing makes a
\* client disconnect.
SpecLockFair ==
  /\ SpecLock
  /\ \A u \in Humans : WF_vars(LeaveBody(u)) /\ WF_vars(LeaveRelease(u))
  /\ WF_vars(LockTick)

Seated(userId) == \E i \in 1..Len(table.players) : table.players[i].userId = userId

\* C21. No leave is lost to lock contention: every seated player whose
\* Leave or Disconnect has entered handlePlayerLeave is eventually removed
\* from the seat list of the table, also when the call found the lock of the
\* table held by another actor.
NoLeaveLostToContention ==
  \A u \in Humans : (leavePc[u] # "idle") ~> ~Seated(u)

(***************************************************************************)
(* The table after its last human left.                                    *)
(***************************************************************************)
\* C22. When a Leave (leaveTable or disconnect) removes the last human from
\* the table, afterwards the table status is waiting, its seat list is empty
\* (all bots evicted, currentPlayerCount = 0) and no game state is stored
\* for the table.
LastHumanLeaveResetsTable ==
  [][(/\ lastEvent'.type = "leave"
      /\ nEvents' = nEvents + 1
      /\ ~socketTable'[lastEvent'.userId]
      /\ Seated(lastEvent'.userId)
      /\ \A i \in 1..Len(table.players) :
           table.players[i].isAI \/ table.players[i].userId = lastEvent'.userId)
       => /\ table'.status = "waiting"
          /\ table'.players = <<>>
          /\ table'.currentPlayerCount = 0
          /\ gameStore' = <<>>]_vars

\* The last human has left a table at which a bot was seated during the
\* round: the wallets show the antes of one human only.
LastHumanLeftBotTable ==
  /\ lastEvent.type = "leave"
  /\ \A u \in Humans : ~socketTable[u]
  /\ table.players = <<>>
  /\ gameStore = <<>>
  /\ \E u \in Humans : db.wallets[u].availableBalance = JoinBalanceFactor * TableStake

(***************************************************************************)
(* The round transition.                                                   *)
(***************************************************************************)
\* C23. A requestLeaveTable issued mid-round does not change the game state
\* of the running round, and when the round-transition handler later runs
\* and starts the next round, the player list of that round does not
\* contain a player whose leave was queued.
QueuedLeaveRemovedBeforeNextRound ==
  [][/\ (lastEvent'.type = "requestLeave" /\ nEvents' = nEvents + 1)
          => gameStore' = gameStore
     /\ (lastEvent'.type = "newRound" /\ nEvents' = nEvents + 1)
          => \A u \in leaving : PlayerIndex(gameStore'[1].players, u) = -1]_vars

\* C24. Dealer rotation: the game state of the round started by a round
\* transition has currentDealerIndex = (currentDealerIndex of the previous
\* round + 1) mod the number of seats in the new round.
DealerRotates ==
  [][(lastEvent'.type = "newRound" /\ nEvents' = nEvents + 1 /\ HasGame)
       => gameStore'[1].currentDealerIndex
            = (GS.currentDealerIndex + 1) % Len(gameStore'[1].players)]_vars

\* C25. A round-transition timer that fires when the stored game state of
\* the table is not a round-end state (the table was reset, or a new round
\* has already been started) does nothing: it replaces no round that is
\* being played and collects no antes.
StaleTimerDoesNothing ==
  [][(timers' = timers - 1 /\ (~HasGame \/ GS.status # "round-end"))
       => gameStore' = gameStore /\ db' = db /\ table' = table]_vars

(***************************************************************************)
(* The bot tick.                                                           *)
(***************************************************************************)
\* C26. A bot tick applies an action only if, at the moment it fires, the
\* reloaded state still has the same bot as current player in a round that
\* is active; if the turn has moved on, the state was deleted, or the round
\* is no longer active, the tick changes nothing.
BotTickOnlyInOwnActiveTurn ==
  [][(/\ lastEvent'.type = "botTick"
      /\ nEvents' = nEvents + 1
      /\ ~(/\ HasGame
           /\ GS.status # "round-end"
           /\ GS.currentPlayerIndex \in 0..(Len(GS.players) - 1)
           /\ GS.players[GS.currentPlayerIndex + 1].userId = lastEvent'.userId))
       => /\ gameStore' = gameStore
          /\ db' = db
          /\ timers' = timers]_vars

(***************************************************************************)
(* Events of one table handled at once.                                    *)
(***************************************************************************)
\* C27. State mutations of one table are serialised: a handler that saves a
\* game state loaded the state that is stored when it saves, so that no
\* action committed in between is overwritten and the stored state reflects
\* the events in some order.
NoLostUpdate ==
  [][\A u \in Humans :
       (/\ inflight[u].kind # "none"
        /\ inflight'[u].kind = "none"
        /\ gameStore' # gameStore)
         => inflight[u].store = gameStore]_vars

(***************************************************************************)
(* The seats of a table.                                                   *)
(***************************************************************************)
\* C28. The number of seated players at a table never exceeds
\* table.maxPlayers, for any interleaving of joins (two joins handled at
\* once included) with leaves and the injection of the bot.
SeatsWithinMaxPlayers == Len(table.players) <= table.maxPlayers

(***************************************************************************)
(* The game events with the catch branch of their handlers: an event the   *)
(* engine function throws on is a step too.  The handler emits gameError   *)
(* to the socket that sent the event; saveGameState and the broadcast of   *)
(* gameStateUpdate come after the engine call in the try block and are not *)
(* reached.  What the engine call had committed to the database stays.     *)
(***************************************************************************)
GameEvents == {"drawCard", "discardCard", "spread", "hit", "drop"}

\* A handler that broadcasts the state it loaded before it reports the
\* error.
EventError_Broadcast(userId, kind, res) ==
  /\ nEvents < MaxEvents
  /\ HasGame
  /\ ~res.ok
  /\ db' = res.db
  /\ lastEvent' = [NoEvent EXCEPT !.type = kind, !.userId = userId,
                                  !.error = res.error, !.updates = 1,
                                  !.errorTo = userId]
  /\ nEvents' = nEvents + 1
  /\ UNCHANGED <<table, gameStore, socketTable, leaving, pickedUp, hitTurn, lock,
                 leavePc, timers, botTicks, inflight>>

\* catch (error) { socket.emit("gameError", { message: error.message }) }
\* for the result `res` of the engine call of the event `kind` of `userId`.
EventError(userId, kind, res) ==
  /\ nEvents < MaxEvents
  /\ HasGame
  /\ ~res.ok
  /\ db' = res.db
  /\ lastEvent' = [NoEvent EXCEPT !.type = kind, !.userId = userId,
                                  !.error = res.error, !.updates = 0,
                                  !.errorTo = userId]
  /\ nEvents' = nEvents + 1
  /\ UNCHANGED <<table, gameStore, socketTable, leaving, pickedUp, hitTurn, lock,
                 leavePc, timers, botTicks, inflight>>

\* The cards of the discard and hit payloads of these rounds: 6-Hearts,
\* 6-Clubs, 5-Spades.
RoundHitCards == {createDeck[6], createDeck[26], createDeck[35]}

\* The tables of these rounds, the wallet balances of their humans before
\* the round (15 pays the ante of a table of stake 10 and no penalty after
\* it) and the deals: 5-5-5-6-6 to one seat, a hand that is no automatic
\* win to the other seats.
EventSeats == { <<"h1", "h2">>, <<"h1", "b1">> }
EventBalances == {15, 100}
EventDeals(n) ==
  {d \in SampleDeals(n) :
     \E i \in 1..n : /\ d[i] = <<5, 15, 25, 6, 16>>
                      /\ \A j \in (1..n) \ {i} :
                           d[j] \in {<<35, 36, 37, 27, 12>>, <<13, 32, 33, 34, 24>>}}

InitEvents ==
  \E seats \in EventSeats, balance \in [Humans -> EventBalances] :
    /\ table = [players |-> [i \in 1..Len(seats) |-> Seat(seats[i])],
                currentPlayerCount |-> Len(seats),
                status |-> "waiting", stake |-> TableStake,
                minPlayers |-> MinPlayers, maxPlayers |-> MaxPlayers]
    /\ gameStore = <<>>
    /\ db = [wallets |-> [u \in Humans |->
                            [availableBalance |-> balance[u],
                             matchEarningsHistory |-> <<>>]],
             matches |-> <<>>, transactions |-> <<>>]
    /\ socketTable = [u \in Humans |-> \E i \in 1..Len(seats) : seats[i] = u]
    /\ leaving = {}
    /\ lastEvent = NoEvent
    /\ pickedUp = [u \in UserIds |-> {}]
    /\ hitTurn = [u \in UserIds |-> 0]
    /\ nEvents = 0
    /\ lock = LockFree
    /\ leavePc = [u \in Humans |-> "idle"]
    /\ timers = 0
    /\ botTicks = NoTicks
    /\ inflight = [u \in Humans |-> NotLoaded]

NextEvents ==
  \/ \E hands \in EventDeals(Len(table.players)) : StartRound(StackedOrder(hands))
  \/ \E u \in Humans, source \in {"deck", "discard"} : DrawCard(u, source)
  \/ \E u \in Humans, source \in {"deck", "discard"} :
       EventError(u, "drawCard", playerDrawCard(GS, db, u, source))
  \/ \E u \in Humans, card \in RoundHitCards : DiscardCard(u, card)
  \/ \E u \in Humans, card \in RoundHitCards :
       EventError(u, "discardCard", playerDiscardCard(GS, db, u, card))
  \/ \E u \in Humans, cards \in RoundSpreads : Spread(u, cards)
  \/ \E u \in Humans, cards \in RoundSpreads :
       EventError(u, "spread", playerSpreadCards(GS, db, u, cards))
  \/ \E u \in Humans, card \in RoundHitCards, target \in UserIds :
       Hit(u, card, target, 0)
  \/ \E u \in Humans, card \in RoundHitCards, target \in UserIds :
       EventError(u, "hit", playerHitSpread(GS, db, u, card, target, 0))
  \/ \E u \in Humans : Drop(u)
  \/ \E u \in Humans : EventError(u, "drop", playerDrop(GS, db, u))

SpecEvents == InitEvents /\ [][NextEvents]_vars

\* C29. When the settlement of a round fails, the stored game state of the
\* table is in status round-end, not the state before the action that ended
\* the round, and nothing of the failed settlement is applied: a game event
\* whose handler reports the failure of the settlement leaves a stored state
\* of status round-end and the database as it was.
SettlementFailed ==
  /\ nEvents' = nEvents + 1
  /\ lastEvent'.type \in GameEvents
  /\ lastEvent'.error = "Wallet settlement transaction failed"

FailedSettlementLeavesRoundEnd ==
  [][SettlementFailed =>
       /\ Len(gameStore') = 1
       /\ gameStore'[1].status = "round-end"
       /\ db' = db]_vars

\* C30. When a rules-engine action is rejected, the stored game state is
\* identical to the state before the event, no gameStateUpdate is broadcast
\* to the table, and only the offending client receives a gameError: a game
\* event whose engine call threw leaves the stored state as it was, and its
\* handler emits no gameStateUpdate and one gameError, to the sender.
RejectedEvent ==
  /\ nEvents' = nEvents + 1
  /\ lastEvent'.type \in GameEvents
  /\ lastEvent'.error # ""

RejectedActionChangesNothing ==
  [][RejectedEvent =>
       /\ gameStore' = gameStore
       /\ lastEvent'.updates = 0
       /\ lastEvent'.errorTo = lastEvent'.userId]_vars

\* The case of C30 happens: a player's discard of the card just picked up
\* from the discard pile was rejected and reported to that player.
RestrictedDiscardRejected ==
  /\ HasGame
  /\ lastEvent.type = "discardCard"
  /\ lastEvent.error = "Cannot discard the card that was just picked up"
  /\ lastEvent.errorTo = lastEvent.userId
  /\ lastEvent.updates = 0

HitHands ==
  { <<5, 15, 25, 6, 16>>, <<35, 36, 37, 27, 12>>, <<13, 32, 33, 34, 24>> }

\* The cards of the hit and discard payloads of these rounds: 2, 3, 4 and 5
\* of Spades, 6-Hearts, 7-Clubs.
HitCards ==
  {createDeck[32], createDeck[33], createDeck[34], createDeck[35],
   createDeck[6], createDeck[27]}

InitHit ==
  \E hands \in {d \in SampleDeals(2) : \A i \in 1..2 : d[i] \in HitHands} :
    LET seats == <<"h1", "h2">>
        started == initializeGame(TableStake,
                                  [i \in 1..Len(seats) |-> Seat(seats[i])],
                                  StackedOrder(hands), InitialDb)
    IN /\ started.ok
       /\ table = [players |-> [i \in 1..Len(seats) |-> Seat(seats[i])],
                   currentPlayerCount |-> Len(seats),
                   status |-> "in-game", stake |-> TableStake,
                   minPlayers |-> MinPlayers, maxPlayers |-> MaxPlayers]
       /\ gameStore = <<started.gs>>
       /\ db = started.db
       /\ socketTable = [u \in Humans |-> TRUE]
       /\ leaving = {}
       /\ lastEvent = NoEvent
       /\ pickedUp = [u \in UserIds |-> {}]
       /\ hitTurn = [u \in UserIds |-> 0]
       /\ nEvents = 0
       /\ lock = LockFree
       /\ leavePc = [u \in Humans |-> "idle"]
       /\ timers = 0
       /\ botTicks = NoTicks
       /\ inflight = [u \in Humans |-> NotLoaded]

NextHit ==
  \/ \E u \in Humans, cards \in RoundSpreads : Spread(u, cards)
  \/ \E u \in Humans, card \in HitCards, target \in Humans,
        index \in ClientSpreadIndexes : Hit(u, card, target, index)
  \/ \E u \in Humans : DrawCard(u, "deck")
  \/ \E u \in Humans, card \in HitCards : DiscardCard(u, card)

SpecHit == InitHit /\ [][NextHit]_vars

\* C32. A successful hit raises the target's hitLockCounter by 2 when the
\* target was not hit-locked and by 1 when it was, sets the target's
\* isHitLocked, and leaves the hit spread a valid spread (a run of one suit
\* sorted by rank and consecutive, or cards of one rank with no suit
\* repeated); a hit with a card that does not extend the spread is rejected.
ValidMeld(spread) ==
  /\ Len(spread) >= 3
  /\ \/ /\ \A i \in 1..Len(spread) : spread[i].rank = spread[1].rank
        /\ \A i, j \in 1..Len(spread) : i # j => spread[i].suit # spread[j].suit
     \/ /\ \A i \in 1..Len(spread) : spread[i].suit = spread[1].suit
        /\ \A i \in 1..(Len(spread) - 1) :
             getCardNumericalRank(spread[i + 1].rank)
               = getCardNumericalRank(spread[i].rank) + 1

\* The hit step changed spread k of the player at seat t, as the claim says.
HitOn(t, k) ==
  LET old == GS.players[t]
      new == gameStore'[1].players[t]
  IN /\ k \in 1..Len(old.spreads)
     /\ Len(new.spreads) = Len(old.spreads)
     /\ Len(new.spreads[k]) = Len(old.spreads[k]) + 1
     /\ \A m \in 1..Len(old.spreads) : m # k => new.spreads[m] = old.spreads[m]
     /\ new.hitLockCounter = old.hitLockCounter + (IF old.isHitLocked THEN 1 ELSE 2)
     /\ new.isHitLocked
     /\ ValidMeld(new.spreads[k])

\* Every hit the engine accepts in the state extends the spread it names.
OnlyExtendingHitsAccepted ==
  \A u \in Humans, t \in Humans, c \in 1..Len(createDeck), k \in ClientSpreadIndexes :
    playerHitSpread(GS, db, u, createDeck[c], t, k).ok =>
      LET target == GS.players[PlayerIndex(GS.players, t) + 1]
      IN ValidMeld(SortByRank(Append(target.spreads[k + 1], createDeck[c])))

HitLocksAndExtends ==
  [][/\ HasGame => OnlyExtendingHitsAccepted
     /\ (nEvents' = nEvents + 1 /\ lastEvent'.type = "hit") =>
          \E t \in 1..Len(GS.players) :
            /\ \E k \in 1..Len(GS.players[t].spreads) : HitOn(t, k)
            /\ \A o \in 1..Len(GS.players) :
                 o # t => gameStore'[1].players[o].spreads = GS.players[o].spreads]_vars

\* The case of C32 happens: a run of Spades was hit twice in one turn, the
\* second time with its owner hit-locked, and is five cards long.
RunHitWhileLocked ==
  /\ HasGame
  /\ lastEvent.type = "hit"
  /\ \E t \in 1..Len(GS.players) :
       /\ GS.players[t].isHitLocked
       /\ GS.players[t].hitLockCounter = 3
       /\ \E k \in 1..Len(GS.players[t].spreads) :
            /\ Len(GS.players[t].spreads[k]) = 5
            /\ \A i \in 1..5 : GS.players[t].spreads[k][i].suit = "Spades"

(***************************************************************************)
(* The bot's turn at any point of a round.  PlayedTurns(gs, n) is the      *)
(* state of the round n turns later when each player in turn draws from    *)
(* the deck (playerDrawCard) and discards the card drawn                   *)
(* (playerDiscardCard, then nextTurn): the hands stay as dealt, the deck   *)
(* loses its top card to the discard pile each turn (30 cards after the    *)
(* deal to two players).                                                   *)
(***************************************************************************)
PlayedTurns(gs, n) ==
  [gs EXCEPT
     !.deck = SubSeq(gs.deck, n + 1, Len(gs.deck)),
     !.discardPile = gs.discardPile \o SubSeq(gs.deck, 1, n),
     !.turn = gs.turn + n,
     !.currentPlayerIndex = (gs.currentPlayerIndex + n) % Len(gs.players),
     !.lastAction = IF n = 0 THEN gs.lastAction ELSE "null",
     !.players = [i \in 1..Len(gs.players) |->
                    [gs.players[i] EXCEPT
                       !.hasTakenActionThisTurn = FALSE,
                       !.restrictedDiscardCard = "null"]]]

\* The numbers of turns played before the bot's: from none to as many as
\* the deck has cards after the deal to two players.
TurnsBefore == 0..(Len(createDeck) - 2 * CardsPerPlayer)

\* The deals of these rounds: those of BotDeals, and 5-5-5-6-6 with a hand
\* that holds no spread (A-Hearts 2-Diamonds 3-Clubs 5-Spades 6-Clubs).
BotTurnDeals ==
  BotDeals \cup { << <<1, 12, 23, 35, 26>>, <<5, 15, 25, 6, 16>> >>,
                  << <<5, 15, 25, 6, 16>>, <<1, 12, 23, 35, 26>> >> }

\* A round of the bot and a human in which it is the bot's turn and the tick
\* of handleAITurn is pending.
InitBotTurn ==
  \E seats \in BotSeats, hands \in BotTurnDeals, n \in TurnsBefore :
    LET started == initializeGame(TableStake,
                                  [i \in 1..Len(seats) |-> Seat(seats[i])],
                                  StackedOrder(hands), InitialDb)
        gs == PlayedTurns(started.gs, n)
    IN /\ started.ok
       /\ started.gs.status # "round-end"
       /\ gs.players[gs.currentPlayerIndex + 1].isAI
       /\ table = [players |-> [i \in 1..Len(seats) |-> Seat(seats[i])],
                   currentPlayerCount |-> Len(seats),
                   status |-> "in-game", stake |-> TableStake,
                   minPlayers |-> MinPlayers, maxPlayers |-> MaxPlayers]
       /\ gameStore = <<gs>>
       /\ db = started.db
       /\ socketTable = [u \in Humans |-> \E i \in 1..Len(seats) : seats[i] = u]
       /\ leaving = {}
       /\ lastEvent = NoEvent
       /\ pickedUp = [u \in UserIds |-> {}]
       /\ hitTurn = [u \in UserIds |-> 0]
       /\ nEvents = 0
       /\ lock = LockFree
       /\ leavePc = [u \in Humans |-> "idle"]
       /\ timers = 0
       /\ botTicks = [b \in Bots |-> 1]
       /\ inflight = [u \in Humans |-> NotLoaded]

BotTicks ==
  \E b \in Bots, random \in 1..(CardsPerPlayer + 1) : BotTick(b, random)

\* The ticks, and the spreads of the human (the handler takes them in the
\* bot's turn too).
NextBotTurn ==
  \/ BotTicks
  \/ \E u \in Humans, cards \in RoundSpreads : Spread(u, cards)

\* The timer of a pending tick fires: weak fairness of the tick, written
\* out (the tick is enabled exactly when TickPending holds).
TickPending == nEvents < MaxEvents /\ \E b \in Bots : botTicks[b] > 0

SpecBotTurn ==
  /\ InitBotTurn /\ [][NextBotTurn]_vars
  /\ ([]<>(~TickPending) \/ []<><<BotTicks>>_vars)

\* It is the turn of bot b in a round being played.
BotsTurn(b) ==
  /\ HasGame
  /\ GS.status # "round-end"
  /\ GS.currentPlayerIndex \in 0..(Len(GS.players) - 1)
  /\ GS.players[GS.currentPlayerIndex + 1].userId = b

\* Under the fairness of the tick: the turn of a bot ends.
BotTurnEnds == \A b \in Bots : BotsTurn(b) ~> ~BotsTurn(b)

\* C33. Bot progress: whenever a round is active and the current player is
\* a bot, the turn eventually passes to the next player or the round ends,
\* also when the deck is empty at the bot's draw.  Only a tick of
\* handleAITurn plays for the bot, so as a property of every state: while
\* it is the turn of a bot, a tick is pending for it.
BotTurnHasTickPending == \A b \in Bots : BotsTurn(b) => botTicks[b] > 0

\* The same but for the empty deck.
BotTurnHasTickPendingOrDeckEmpty ==
  \A b \in Bots : (BotsTurn(b) /\ GS.deck # <<>>) => botTicks[b] > 0

\* C34. Bot strategist priority: when it is the bot's turn, its hand holds
\* no valid 3-card spread and some card of its hand can legally hit some
\* spread on the table, getAIPlayerAction returns a hit.
BotCanHit(b) ==
  LET hand == GS.players[GS.currentPlayerIndex + 1].hand
  IN /\ BotsTurn(b)
     /\ findPossibleSpreads(hand) = {}
     /\ \E c \in 1..Len(hand), t \in 1..Len(GS.players) :
          \E k \in 1..Len(GS.players[t].spreads) :
            canHitSpread(GS.players[t].spreads[k], hand[c])

BotHitsWhenItCan ==
  \A b \in Bots :
    BotCanHit(b) =>
      \A random \in 1..(CardsPerPlayer + 1) :
        getAIPlayerAction(GS, b, random).type = "hit"

\* C35. The round transition does its mutations (the queued leaves, the
\* eviction of the bots, the start and the save of the next round) only
\* while it holds the lock of the table, so a leave of the same table does
\* not interleave with the start of the next round: no round transition
\* changes the table or the stored game state while a leave holds the lock.
TransitionMutates ==
  /\ nEvents' = nEvents + 1
  /\ lastEvent'.type \in {"newRound", "transition"}
  /\ (table' # table \/ gameStore' # gameStore)

TransitionExcludesLeave ==
  [][TransitionMutates =>
       \A u \in Humans : leavePc[u] \notin {"critical", "finally"}]_vars

(***************************************************************************)
(* Events whose card objects carry a value field chosen by the client: the *)
(* handlers pass the payload's card to the engine as it came.              *)
(***************************************************************************)
\* The Kings of ClientCards with value 0.
ForgedCards == {[c EXCEPT !.value = 0] : c \in {d \in ClientCards : d.rank = "King"}}

NextForge ==
  \/ \E u \in Humans, source \in {"deck", "discard"} : DrawCard(u, source)
  \/ \E u \in Humans, card \in ForgedCards : DiscardCard(u, card)

SpecForge == Init /\ [][NextForge]_vars

\* C36. Card values cannot be forged by a client: in every reachable game
\* state each card of the deck, the discard pile, the hands and the spreads
\* has the value fixed by its rank, whatever value the client put in the
\* card objects of its events.
TrueValue(card) ==
  \E i \in 1..Len(RANKS_AND_VALUES) :
     RANKS_AND_VALUES[i].rank = card.rank /\ RANKS_AND_VALUES[i].value = card.value

TrueCardValues ==
  HasGame =>
    /\ \A i \in 1..Len(GS.deck) : TrueValue(GS.deck[i])
    /\ \A i \in 1..Len(GS.discardPile) : TrueValue(GS.discardPile[i])
    /\ \A p \in 1..Len(GS.players) :
         /\ \A i \in 1..Len(GS.players[p].hand) : TrueValue(GS.players[p].hand[i])
         /\ \A k \in 1..Len(GS.players[p].spreads) :
              \A i \in 1..Len(GS.players[p].spreads[k]) :
                 TrueValue(GS.players[p].spreads[k][i])

(***************************************************************************)
(* leaveTable during a round.  initializeGame stores the round with status *)
(* "starting" and no function of the engine assigns "in-progress", the     *)
(* status the handler of leaveTable tests before it defers the leave.      *)
(***************************************************************************)
\* The handler of leaveTable runs for userId while a round is being played.
LeaveDuringRound(userId) ==
  /\ HasGame
  /\ GS.status # "round-end"
  /\ LeaveTable(userId)

\* C37. A leaveTable event received while a round is being played (a game
\* state exists and its round has not ended) is deferred: the user is added
\* to the leaving set, and the seat list and the game state are not changed.
LeaveDuringRoundDeferred ==
  [][\A u \in Humans :
       LeaveDuringRound(u) =>
         /\ u \in leaving'
         /\ table' = table
         /\ gameStore' = gameStore]_vars

\* C38. In every reachable table state currentPlayerCount equals the length
\* of the table's seat list and is never negative, for any sequence of joins,
\* leaves, leave requests, disconnects and round transitions.
CountIsSeatsAndNotNegative ==
  /\ table.currentPlayerCount = Len(table.players)
  /\ table.currentPlayerCount >= 0

\* The number of ticks of handleAITurn pending at the table.
RECURSIVE PendingTicks(_)
PendingTicks(bots) ==
  IF bots = {} THEN 0
  ELSE LET b == CHOOSE x \in bots : TRUE
       IN botTicks[b] + PendingTicks(bots \ {b})

\* C39. At most one bot tick is pending per table at any time: a rejoin, a
\* discard by a human and the recursion of the bot loop never leave two
\* outstanding ticks for the same bot on the same turn.
AtMostOneTickPending == PendingTicks(Bots) <= 1

\* A round end was settled: the Match record is stored and the payouts map is
\* in the saved game state.
RoundSettled ==
  /\ HasGame
  /\ lastEvent.type = "roundEnd"
  /\ lastEvent.error = ""
  /\ Len(db.matches) > 0

\* C40. At round end the payouts map stored in the game state agrees with
\* the Match record of the same settlement: the winner's entry is
\* winnerPayout and each loser's entry is -(baseStake + that loser's
\* penalty), for every end reason.
PayoutsAgreeWithMatch ==
  RoundSettled =>
    LET match == db.matches[Len(db.matches)]
    IN \A i \in 1..Len(GS.players) :
         LET userId == GS.players[i].userId
         IN /\ userId \in DOMAIN GS.payouts
            /\ GS.payouts[userId] = match.players[i].payout
            /\ GS.payouts[userId] =
                 IF userId = GS.roundWinnerId
                 THEN match.winnerPayout
                 ELSE 0 - (GS.baseStake + PenaltyOf(match.penalties, userId))

====
